---- MODULE Spec2Model ----
(***************************************************************************)
(* Model of the unm-sfx sound-effect engine (unm/unm-sfx) and of the       *)
(* handle table it uses (unm/unm-tools/src/id_map.rs).                     *)
(*                                                                         *)
(* Ten specifications share the module:                                    *)
(*   Spec          the Player of backend/cpal.rs and backend/oboe.rs: the  *)
(*                 caller thread (init_load_sound, maintain_stream,        *)
(*                 build_stream, play), the platform's audio callback      *)
(*                 thread and the platform's error callback;               *)
(*   SpecIdMap     IdMap alone under insert / remove / get;                *)
(*   SpecMixer     Mixer alone under add_sound / mix;                      *)
(*   SpecChannel   the trigger ring alone under play / pop / replacement;  *)
(*   SpecAtlas     build_from_sources alone, at several device rates;      *)
(*   SpecEndToEnd  load, play and one data callback in sequence;           *)
(*   SpecCallback  the data callback alone against concurrent play calls;  *)
(*   SpecLive      Spec with the fairness the platform's callback has;     *)
(*   SpecMixF32    Mixer alone with every addition rounded as f32 rounds;  *)
(*   SpecEmptyClip Mixer alone on an atlas with a clip of no frames.       *)
(*                                                                         *)
(* Samples are f32 in the source.  They are modelled as integers in fixed  *)
(* point: the integer One stands for 1.0.  Only finite sample values are   *)
(* modelled (no NaN, no infinity).                                         *)
(***************************************************************************)
EXTENDS Integers, Sequences, FiniteSets, TLC

\* ------------------------------------------------------------------ bounds
\* Number of play calls in a run.
MaxPlays == 1
\* Number of times the platform invokes the error callback in a run.
MaxErrors == 1
\* Capacity of the trigger ring (HeapRb::new(128) in the source), scaled down.
RingCapacity == 2
\* Number of play calls in a run of the trigger channel alone.
MaxTriggers == 4
\* Frames of the short sources handed to build_from_sources alone.
MaxSourceFrames == 3
\* The value at which IdMap::insert refuses to issue (u64::MAX in the source),
\* scaled down.
IdLimit == 5
\* Largest number of frames the platform asks for in one callback.
OutFrames == 2
\* Largest channel count a cpal device reports.
MaxChannels == 3
\* The most voices the stand-alone mixer is given.
MaxVoices == 3
\* Capacity the Mixer's Vec is made with (Vec::with_capacity(128) in the
\* source), scaled down.
VoiceCapacity == 2
\* Number of play calls in a run of the data callback alone.
MaxRtPlays == 3
\* Number of times the atlas is built from one set of sources.
MaxBuilds == 2

\* ------------------------------------------------------------ program constants
\* Clips start at multiples of 16 samples in the atlas.
AtlasAlign == 16
\* The sample value 1.0, in fixed point.
One == 2
\* The rate Player::new() assumes of the device until one is opened, which
\* is also the rate decode assumes of a track that states none.
DefaultRate == 48000
\* Frames of the long source handed to build_from_sources alone: 1/60 s at
\* 44100 Hz.
LongFrames == 735

\* ------------------------------------------------------------------ helpers
Min(a, b) == IF a < b THEN a ELSE b

Range(f) == {f[x] : x \in DOMAIN f}

\* The sequences, without repetition, of all the elements of the set S.
Orders(S) == {s \in [1..Cardinality(S) -> S] : Range(s) = S}

Zeros(n) == [k \in 1..n |-> 0]

\* ------------------------------------------------------------------ IdMap
\* IdMap<V, H> { data: HashMap<u64, V>, next_id: u64 }
IdMapNew == [data |-> [k \in {} |-> 0], next_id |-> 1]

\* A variant of insert that hands out the smallest id not in use.
IdMapInsertReusing(m, value) ==
    LET free == CHOOSE k \in 1..IdLimit : k \notin DOMAIN m.data /\ \A j \in 1..(k - 1) : j \in DOMAIN m.data
    IN  IF m.next_id = IdLimit
        THEN [panic |-> TRUE, map |-> m, handle |-> 0]
        ELSE [panic |-> FALSE,
              map |-> [data |-> [k \in DOMAIN m.data \cup {free} |-> IF k = free THEN value ELSE m.data[k]],
                       next_id |-> m.next_id + 1],
              handle |-> free]

\* insert: panics when next_id has reached the limit; otherwise issues next_id
\* and increments it.  The result also says whether the call panicked.
IdMapInsert(m, value) ==
    LET current_id == m.next_id
    IN  IF current_id = IdLimit
        THEN [panic |-> TRUE, map |-> m, handle |-> 0]
        ELSE [panic |-> FALSE,
              map |-> [data |-> [k \in DOMAIN m.data \cup {current_id} |->
                                    IF k = current_id THEN value ELSE m.data[k]],
                       next_id |-> current_id + 1],
              handle |-> current_id]

\* remove: deletes the entry and returns the value it held.  An Option is a
\* sequence of at most one element: <<>> is None, <<v>> is Some(v).
IdMapRemove(m, handle) ==
    [map |-> [m EXCEPT !.data = [k \in DOMAIN m.data \ {handle} |-> m.data[k]]],
     value |-> IF handle \in DOMAIN m.data THEN <<m.data[handle]>> ELSE <<>>]

\* get: the value under the handle, if any.
IdMapGet(m, handle) == IF handle \in DOMAIN m.data THEN <<m.data[handle]>> ELSE <<>>

IdMapKeys(m) == DOMAIN m.data

\* ------------------------------------------------------------------ decoder
\* The byte buffers handed to init_load_sound, by what decode does with them:
\* "A" and "B" decode to mono samples, "corrupt" makes next_packet return an
\* error other than end of file, "unknown" is a container the probe rejects.
ValidInputs == {"A", "B"}
Inputs == ValidInputs \cup {"corrupt", "unknown"}

\* decode(data) -> anyhow::Result<RawSource>: Ok(RawSource), Err, or a panic
\* (the expect on the probe's result).  "A" and "B" are recorded at 48000 Hz.
Decode(data) ==
    CASE data = "unknown" -> [kind |-> "panic"]
      [] data = "corrupt" -> [kind |-> "err"]
      [] data = "A" -> [kind |-> "ok", source |-> [data |-> <<One>>, sample_rate |-> DefaultRate,
                                                  frames_count |-> 1]]
      [] data = "B" -> [kind |-> "ok", source |-> [data |-> <<1, -One>>, sample_rate |-> DefaultRate,
                                                  frames_count |-> 2]]

\* ------------------------------------------------------------------ f32
\* A non-negative f32 is <<m, e>>, standing for m * 2^e: 0.0 is <<0, 0>>,
\* any other value has a mantissa of 24 bits, 2^23 <= m < 2^24.  The
\* operations round to nearest, ties to even, as the hardware does.  The
\* operands stay below 2^31 in every step (frame counts below 2^24, rates
\* below 2^18), so subnormals, infinities and NaN do not come up.
MantissaBits == 24

Pow2(n) == 2 ^ n

\* The number of bits of n: 0 for 0, k when 2^(k-1) <= n < 2^k.
RECURSIVE BitLen(_)
BitLen(n) == IF n = 0 THEN 0 ELSE 1 + BitLen(n \div 2)

\* q holds one bit more than a mantissa (the guard bit is its last), sticky
\* says whether anything non-zero was cut off below it, e is the exponent of
\* the mantissa's last bit: the value rounded to nearest, ties to even.
F32Round(q, sticky, e) ==
    LET m == q \div 2
        guard == q % 2
        up == guard = 1 /\ (sticky \/ m % 2 = 1)
        rounded == IF up THEN m + 1 ELSE m
    IN  IF rounded = Pow2(MantissaBits)
        THEN <<Pow2(MantissaBits - 1), e + 1>>
        ELSE <<rounded, e>>

\* n as f32, for 0 <= n < 2^24: exact.
F32FromInt(n) ==
    IF n = 0 THEN <<0, 0>>
    ELSE LET shift == MantissaBits - BitLen(n)
         IN  <<n * Pow2(shift), -shift>>

\* Long division, one quotient bit per turn, until q has 25 bits; e is the
\* exponent of q's last bit.
RECURSIVE DivBits(_, _, _, _)
DivBits(q, r, b, e) ==
    IF q >= Pow2(MantissaBits) THEN [q |-> q, r |-> r, e |-> e]
    ELSE IF 2 * r >= b
         THEN DivBits(2 * q + 1, 2 * r - b, b, e - 1)
         ELSE DivBits(2 * q, 2 * r, b, e - 1)

\* a as f32 / b as f32, for 0 <= a < 2^24 and 0 < b < 2^24.
F32Div(a, b) ==
    IF a = 0 THEN <<0, 0>>
    ELSE LET d == DivBits(a \div b, a % b, b, 0)
         IN  F32Round(d.q, d.r # 0, d.e + 1)

\* x * (c as f32), for an f32 x and 0 < c < 2^18.  The product of the
\* mantissa and c is top * 2^12 + low, computed in two halves of the mantissa.
F32Mul(x, c) ==
    IF x[1] = 0 THEN <<0, 0>>
    ELSE LET hi == x[1] \div 4096
             lo == x[1] % 4096
             top == hi * c + (lo * c) \div 4096
             low == (lo * c) % 4096
             \* the number of bits of the product below its first 25
             cut == BitLen(top) + 12 - (MantissaBits + 1)
         IN  IF cut <= 0
             THEN F32Round((top * 4096 + low) * Pow2(-cut), FALSE, x[2] + cut + 1)
             ELSE IF cut <= 12
             THEN F32Round(top * Pow2(12 - cut) + low \div Pow2(cut),
                           low % Pow2(cut) # 0, x[2] + cut + 1)
             ELSE F32Round(top \div Pow2(cut - 12),
                           top % Pow2(cut - 12) # 0 \/ low # 0, x[2] + cut + 1)

\* x as usize, for an f32 x >= 0: the integer part.
F32Trunc(x) ==
    IF x[2] >= 0 THEN x[1] * Pow2(x[2])
    ELSE IF -x[2] >= MantissaBits THEN 0
    ELSE x[1] \div Pow2(-x[2])

\* x.ceil() as usize
F32Ceil(x) ==
    IF x[2] >= 0 THEN x[1] * Pow2(x[2])
    ELSE IF -x[2] >= MantissaBits THEN (IF x[1] = 0 THEN 0 ELSE 1)
    ELSE x[1] \div Pow2(-x[2]) + (IF x[1] % Pow2(-x[2]) = 0 THEN 0 ELSE 1)

\* x - (x as usize as f32), which is exact: <<numerator, exponent>>.
F32Fract(x) ==
    IF x[2] >= 0 THEN <<0, 0>>
    ELSE IF -x[2] >= MantissaBits THEN x
    ELSE IF x[1] % Pow2(-x[2]) = 0 THEN <<0, 0>>
    ELSE <<x[1] % Pow2(-x[2]), x[2]>>

\* ------------------------------------------------------------------ atlas
\* A pointer into an atlas buffer: the buffer it points into (each boxed
\* buffer is one allocation, named by the number of the build that made it)
\* and the offset, in samples, from the buffer's start.
Ptr(base, off) == [base |-> base, off |-> off]

\* An if in place of the while: one zero at most.
PadOnce(central_data) ==
    IF Len(central_data) % AtlasAlign # 0 THEN Append(central_data, 0) ELSE central_data

\* while central_data.len() % 16 != 0 { central_data.push(0.0) }
PadToAlign(central_data) ==
    central_data \o Zeros((AtlasAlign - (Len(central_data) % AtlasAlign)) % AtlasAlign)

\* get_raw_frame: the sample of the frame, 0.0 past the end of the source.
GetRawFrame(source, frame_idx) ==
    IF frame_idx < source.frames_count THEN source.data[frame_idx + 1] ELSE 0

\* lerp_sample_from_raw, for time = i as f32 / target_rate as f32.  The
\* result curr + fract * (next - curr) is kept as its three operands; the
\* f32 arithmetic of the interpolation itself is not evaluated.
LerpSampleFromRaw(source, time) ==
    LET idxf32 == F32Mul(time, source.sample_rate)
        idx == F32Trunc(idxf32)
    IN  [curr |-> GetRawFrame(source, idx),
         next |-> GetRawFrame(source, idx + 1),
         fract |-> F32Fract(idxf32)]

\* The frame count perform_resample computes.
TargetFramesCount(frames_count, sample_rate, target_rate) ==
    LET duration == F32Div(frames_count, sample_rate)
    IN  F32Ceil(F32Mul(duration, target_rate))

\* perform_resample: one interpolated sample per destination frame.
PerformResample(source, target_rate) ==
    LET target_frames_count ==
            TargetFramesCount(source.frames_count, source.sample_rate, target_rate)
    IN  [k \in 1..target_frames_count |->
            LerpSampleFromRaw(source, F32Div(k - 1, target_rate))]

\* A loop that records a clip's offset before it pads central_data.
RECURSIVE AtlasLoopOffsetBeforePadding(_, _, _, _, _)
AtlasLoopOffsetBeforePadding(sources, order, device_sample_rate, i, acc) ==
    IF i > Len(order) THEN acc
    ELSE LET handle == order[i]
             source == sources.data[handle]
             processed_samples == IF source.sample_rate # device_sample_rate
                                  THEN PerformResample(source, device_sample_rate)
                                  ELSE source.data
             current_offset == Len(acc.central_data)
             padded == PadToAlign(acc.central_data)
             frames == Len(processed_samples)
         IN  AtlasLoopOffsetBeforePadding(sources, order, device_sample_rate, i + 1,
                       [central_data |-> padded \o processed_samples,
                        clips_temp |-> acc.clips_temp \cup {<<handle, current_offset, frames>>}])

\* The body of the loop over sources.iter(), run over the handles in the
\* order `order` the HashMap yields them; acc holds central_data and the
\* (handle, offset, frames) entries recorded so far.
RECURSIVE AtlasLoop(_, _, _, _, _)
AtlasLoop(sources, order, device_sample_rate, i, acc) ==
    IF i > Len(order) THEN acc
    ELSE LET handle == order[i]
             source == sources.data[handle]
             processed_samples == IF source.sample_rate # device_sample_rate
                                  THEN PerformResample(source, device_sample_rate)
                                  ELSE source.data
             padded == PadToAlign(acc.central_data)
             current_offset == Len(padded)
             frames == Len(processed_samples)
         IN  AtlasLoop(sources, order, device_sample_rate, i + 1,
                       [central_data |-> padded \o processed_samples,
                        clips_temp |-> acc.clips_temp \cup {<<handle, current_offset, frames>>}])

\* A build whose clips all point at the start of the buffer: base_ptr
\* without the add(offset).
BuildFromSourcesAtBase(sources, order, device_sample_rate, base) ==
    LET acc == AtlasLoop(sources, order, device_sample_rate, 1,
                         [central_data |-> <<>>, clips_temp |-> {}])
    IN  [base |-> base,
         buf |-> acc.central_data,
         map |-> [handle \in {c[1] : c \in acc.clips_temp} |->
                    LET c == CHOOSE c \in acc.clips_temp : c[1] = handle
                    IN  [data_ptr |-> Ptr(base, 0), frames_count |-> c[3]]]]

\* SoundAtlas::build_from_sources: the boxed buffer (allocation number base)
\* and the map from handle to ClipMap { data_ptr, frames_count }.
BuildFromSources(sources, order, device_sample_rate, base) ==
    LET acc == AtlasLoop(sources, order, device_sample_rate, 1,
                         [central_data |-> <<>>, clips_temp |-> {}])
    IN  [base |-> base,
         buf |-> acc.central_data,
         map |-> [handle \in {c[1] : c \in acc.clips_temp} |->
                    LET c == CHOOSE c \in acc.clips_temp : c[1] = handle
                    IN  [data_ptr |-> Ptr(base, c[2]), frames_count |-> c[3]]]]

\* ------------------------------------------------------------------ mixer
\* Mixer(Vec<SoundState>), SoundState { clip: ClipMap, cursor: usize }
MixerNew == <<>>

AddSound(sounds, clip) == Append(sounds, [clip |-> clip, cursor |-> 0])

\* Vec::swap_remove(i), i counted from 1 here.
SwapRemove(sounds, i) ==
    LET last == Len(sounds)
    IN  [k \in 1..(last - 1) |-> IF k = i THEN sounds[last] ELSE sounds[k]]

\* A clamp that bounds a sample from above only.
ClampUpperOnly(sample) == IF sample > One THEN One ELSE sample

\* f32::clamp(-1.0, 1.0)
Clamp(sample) == IF sample < -One THEN -One ELSE IF sample > One THEN One ELSE sample

\* *src_ptr.add(j): the sample j places after the voice's cursor, read from
\* the buffer mem the clip's pointer points into.
SrcSample(mem, sound, j) == mem[sound.clip.data_ptr.off + sound.cursor + j + 1]

\* A match on channels whose last arm fills the first two slots of a frame only.
AddFramesFirstTwo(channels, out_data, mem, sound, mix_frames) ==
    [k \in 1..Len(out_data) |->
       LET j == (k - 1) \div channels
       IN  IF j < mix_frames /\ (channels = 1 \/ (k - 1) - j * channels \in {0, 1})
           THEN out_data[k] + SrcSample(mem, sound, j) ELSE out_data[k]]

\* A match on channels whose arm for two channels fills the left slot only.
AddFramesLeftOnly(channels, out_data, mem, sound, mix_frames) ==
    [k \in 1..Len(out_data) |->
       LET j == (k - 1) \div channels
       IN  IF j < mix_frames /\ (channels # 2 \/ (k - 1) - j * channels = 0)
           THEN out_data[k] + SrcSample(mem, sound, j) ELSE out_data[k]]

\* The match on channels: the first mix_frames samples of the voice, added
\* into out_data.  out_data[k] here is *out_ptr.add(k - 1) there.
AddFrames(channels, out_data, mem, sound, mix_frames) ==
    CASE channels = 1 ->
           [k \in 1..Len(out_data) |->
              IF k - 1 < mix_frames
              THEN out_data[k] + SrcSample(mem, sound, k - 1) ELSE out_data[k]]
      [] channels = 2 ->
           [k \in 1..Len(out_data) |->
              LET j == (k - 1) \div 2
              IN  IF j < mix_frames /\ k - 1 \in {j * 2, j * 2 + 1}
                  THEN out_data[k] + SrcSample(mem, sound, j) ELSE out_data[k]]
      [] OTHER ->
           [k \in 1..Len(out_data) |->
              LET j == (k - 1) \div channels
              IN  IF j < mix_frames /\ (k - 1) - j * channels \in 0..(channels - 1)
                  THEN out_data[k] + SrcSample(mem, sound, j) ELSE out_data[k]]

\* A loop that steps over a voice with nothing left to render and leaves it
\* in the list.
RECURSIVE MixLoopKeepingEmpty(_, _, _, _, _, _)
MixLoopKeepingEmpty(channels, out_frames, mem, sounds, out_data, i) ==
    IF ~(i < Len(sounds)) THEN [sounds |-> sounds, out_data |-> out_data]
    ELSE LET sound == sounds[i + 1]
             mix_frames == Min(out_frames, sound.clip.frames_count - sound.cursor)
         IN  IF mix_frames = 0
             THEN MixLoopKeepingEmpty(channels, out_frames, mem, sounds, out_data, i + 1)
             ELSE LET mixed == AddFrames(channels, out_data, mem, sound, mix_frames)
                      cursor == sound.cursor + mix_frames
                      advanced == [sounds EXCEPT ![i + 1].cursor = cursor]
                  IN  IF cursor >= sound.clip.frames_count
                      THEN MixLoopKeepingEmpty(channels, out_frames, mem,
                                               SwapRemove(advanced, i + 1), mixed, i)
                      ELSE MixLoopKeepingEmpty(channels, out_frames, mem, advanced, mixed, i + 1)

\* The while loop of mix over the voice list; i counts from 0 as in the source.
RECURSIVE MixLoop(_, _, _, _, _, _)
MixLoop(channels, out_frames, mem, sounds, out_data, i) ==
    IF ~(i < Len(sounds)) THEN [sounds |-> sounds, out_data |-> out_data]
    ELSE LET sound == sounds[i + 1]
             mix_frames == Min(out_frames, sound.clip.frames_count - sound.cursor)
         IN  IF mix_frames = 0
             THEN MixLoop(channels, out_frames, mem, SwapRemove(sounds, i + 1), out_data, i)
             ELSE LET mixed == AddFrames(channels, out_data, mem, sound, mix_frames)
                      cursor == sound.cursor + mix_frames
                      advanced == [sounds EXCEPT ![i + 1].cursor = cursor]
                  IN  IF cursor >= sound.clip.frames_count
                      THEN MixLoop(channels, out_frames, mem, SwapRemove(advanced, i + 1), mixed, i)
                      ELSE MixLoop(channels, out_frames, mem, advanced, mixed, i + 1)

\* Mixer::mix(channels, out_data): the voice list and the buffer afterwards.
Mix(channels, out_data, mem, sounds) ==
    IF sounds = <<>> THEN [sounds |-> sounds, out_data |-> out_data]
    ELSE LET out_frames == Len(out_data) \div channels
             done == MixLoop(channels, out_frames, mem, sounds, out_data, 0)
         IN  [sounds |-> done.sounds,
              out_data |-> [k \in 1..Len(out_data) |-> Clamp(done.out_data[k])]]

\* ================================================================== Player
VARIABLES
    backend,        \* "cpal" or "oboe": which Player was compiled in
    callerPc,       \* where the caller thread is inside the method it called
    op,             \* the method the caller thread is in
    decoded,        \* how many inputs init_load_sound decoded before it stopped
    result,         \* init_load_sound's local result: sounds.keys().collect()
    ret,            \* what init_load_sound returns
    bsErr,          \* how build_stream ended
    msLost,         \* whether maintain_stream found device_lost set
    cached_sources, \* self.cached_sources: NoSources or an IdMap of RawSource
    producer,       \* self.producer: the ring it is the writing end of
    consumer,       \* self.consumer: the ring it is the reading end of; 0 is None
    taken,          \* build_stream's local consumer, later moved into the callback
    queue,          \* the handles pending in the ring of self.producer
    stream,         \* self.stream: the running platform stream; 0 is None
    cbRing,         \* the ring whose reading end the running stream's callback owns
    device_lost,    \* the AtomicBool shared with the error callback
    lostBy,         \* the stream whose error callback set device_lost; 0 if clear
    mixerSome,      \* GLOBAL_MIXER.is_some()
    voices,         \* the Vec of GLOBAL_MIXER (what its memory holds, once freed)
    atlasSome,      \* GLOBAL_ATLAS.is_some()
    atlas,          \* the buffer and map of GLOBAL_ATLAS (likewise, once freed)
    cbPc,           \* where the audio callback thread is inside the data callback
    issued,         \* every <<handle, samples>> init_load_sound has returned so far
    playedLive,     \* whether some play call was made while a stream was open
    nPlays, nErrors, nRings, nStreams, nAtlases

\* ================================================================== IdMap alone
VARIABLES
    idm,            \* the IdMap
    idmPanicked,    \* whether insert has panicked
    returned,       \* the handles insert has returned, in order
    removed,        \* <<handle, n>>: remove deleted the handle's entry after n inserts
    idmGot          \* the last get: its handle and what it returned

\* ================================================================== Mixer alone
VARIABLES
    mxMem,          \* the atlas the clips point into: its buffer and map
    mxSounds,       \* the Mixer's Vec<SoundState>
    mxOut,          \* the output buffer mix has just filled
    mxPre,          \* that mix call's arguments and the voice list it found
    mxSplit         \* two consecutive mix calls: their sizes, buffers and first voice list

\* ================================================================== trigger channel alone
VARIABLES
    chQueue,        \* the handles pending in the ring, oldest first
    chAccepted,     \* the handles try_push accepted into this ring, in order
    chPopped,       \* the handles the callback's try_pop took from this ring, in order
    chDropped,      \* the handles of the play calls this ring refused, in order
    nTriggers       \* how many play calls were made

\* ================================================================== atlas alone
VARIABLES
    atSources,      \* the IdMap of RawSource handed to build_from_sources
    atDeviceRate,   \* the device_sample_rate handed to it
    atAtlas,        \* what it returned: the buffer and the map; NoAtlas before the call
    atBuiltAt       \* the device rates of the builds made so far, in order

\* ================================================================== one clip, end to end
VARIABLES
    e2Pc,           \* "new", "loaded", "played", then "first" and "second" callback done
    e2Sources,      \* self.cached_sources
    e2Handle,       \* the handle init_load_sound returned
    e2Channels,     \* the channel count of the device that was opened
    e2Atlas,        \* GLOBAL_ATLAS
    e2Voices,       \* the Vec of GLOBAL_MIXER
    e2Ring,         \* the handles pending in the ring
    e2Played,       \* the handle passed to play
    e2First,        \* the frames of the first callback after play
    e2Before,       \* the buffer the platform handed to the last callback
    e2Out           \* that buffer when the callback returned

\* ================================================================== data callback alone
VARIABLES
    rtAtlas,        \* GLOBAL_ATLAS of the open stream
    rtRing,         \* the handles pending in the ring
    rtVoices,       \* the Vec of GLOBAL_MIXER
    rtPc,           \* where the data callback is: "idle", "pop", "mix", "mixed"
    rtAtBegin,      \* the handles that were pending when the invocation began
    rtPopped,       \* the handles the invocation has popped, in order
    rtBefore,       \* the voice list when the invocation began
    rtMixIn,        \* the voice list handed to mix
    rtChannels,     \* the channel count handed to mix
    rtOut,          \* the buffer when mix returned
    nRtPlays        \* how many play calls were made

callVars == <<op, decoded, result, ret, bsErr, msLost>>
ringVars == <<producer, consumer, taken, queue, cbRing>>
flagVars == <<device_lost, lostBy>>
globals == <<mixerSome, voices, atlasSome, atlas>>
ghosts == <<issued, playedLive>>
counters == <<nPlays, nErrors, nRings, nStreams, nAtlases>>
playerVars == <<backend, callerPc, callVars, cached_sources, ringVars, stream, flagVars,
                globals, cbPc, ghosts, counters>>
idmVars == <<idm, idmPanicked, returned, removed, idmGot>>
mixerVars == <<mxMem, mxSounds, mxOut, mxPre, mxSplit>>
chanVars == <<chQueue, chAccepted, chPopped, chDropped, nTriggers>>
atlasVars == <<atSources, atDeviceRate, atAtlas, atBuiltAt>>
e2eVars == <<e2Pc, e2Sources, e2Handle, e2Channels, e2Atlas, e2Voices, e2Ring, e2Played,
             e2First, e2Before, e2Out>>
rtVars == <<rtAtlas, rtRing, rtVoices, rtPc, rtAtBegin, rtPopped, rtBefore, rtMixIn,
            rtChannels, rtOut, nRtPlays>>
vars == <<playerVars, idmVars, mixerVars, chanVars, atlasVars, e2eVars, rtVars>>
\* What the Player's steps leave alone.
others == <<idmVars, mixerVars, chanVars, atlasVars, e2eVars, rtVars>>
\* What the steps of the stand-alone IdMap, Mixer, trigger channel and atlas,
\* and of the run of one clip, leave alone.
notIdMap == <<playerVars, mixerVars, chanVars, atlasVars, e2eVars, rtVars>>
notMixer == <<playerVars, idmVars, chanVars, atlasVars, e2eVars, rtVars>>
notChannel == <<playerVars, idmVars, mixerVars, atlasVars, e2eVars, rtVars>>
notAtlas == <<playerVars, idmVars, mixerVars, chanVars, e2eVars, rtVars>>
notEndToEnd == <<playerVars, idmVars, mixerVars, chanVars, atlasVars, rtVars>>
notCallback == <<playerVars, idmVars, mixerVars, chanVars, atlasVars, e2eVars>>

\* self.cached_sources = None; an IdMap's next_id is never 0.
NoSources == [data |-> [k \in {} |-> 0], next_id |-> 0]

NoAtlas == [base |-> 0, buf |-> <<>>, map |-> [k \in {} |-> 0]]

\* No call is running: the variables of a call hold nothing.
NoCall ==
    /\ op = "-"
    /\ decoded = 0
    /\ result = <<>>
    /\ ret = "-"
    /\ bsErr = "-"
    /\ msLost = FALSE

\* Player::new(), with GLOBAL_MIXER and GLOBAL_ATLAS as the statics start.
PlayerInit ==
    /\ backend \in {"cpal", "oboe"}
    /\ callerPc = "idle"
    /\ NoCall
    /\ cached_sources = NoSources
    /\ producer = 1
    /\ consumer = 1
    /\ taken = 0
    /\ queue = <<>>
    /\ stream = 0
    /\ cbRing = 0
    /\ device_lost = FALSE
    /\ lostBy = 0
    /\ mixerSome = FALSE
    /\ voices = <<>>
    /\ atlasSome = FALSE
    /\ atlas = NoAtlas
    /\ cbPc = "idle"
    /\ issued = {}
    /\ playedLive = FALSE
    /\ nPlays = 0
    /\ nErrors = 0
    /\ nRings = 1
    /\ nStreams = 0
    /\ nAtlases = 0

IdMapIdle ==
    /\ idm = IdMapNew
    /\ idmPanicked = FALSE
    /\ returned = <<>>
    /\ removed = {}
    /\ idmGot = [handle |-> 0, value |-> <<>>]

MixerIdle ==
    /\ mxMem = <<>>
    /\ mxSounds = <<>>
    /\ mxOut = <<>>
    /\ mxPre = [called |-> FALSE]
    /\ mxSplit = [called |-> FALSE]

\* The ring of Player::new(): HeapRb::new(128), nothing pushed yet.
ChannelInit ==
    /\ chQueue = <<>>
    /\ chAccepted = <<>>
    /\ chPopped = <<>>
    /\ chDropped = <<>>
    /\ nTriggers = 0

AtlasIdle ==
    /\ atSources = IdMapNew
    /\ atDeviceRate = DefaultRate
    /\ atAtlas = NoAtlas
    /\ atBuiltAt = <<>>

\* Player::new(), nothing loaded.
EndToEndInit ==
    /\ e2Pc = "new"
    /\ e2Sources = NoSources
    /\ e2Handle = 0
    /\ e2Channels = 0
    /\ e2Atlas = NoAtlas
    /\ e2Voices = <<>>
    /\ e2Ring = <<>>
    /\ e2Played = 0
    /\ e2First = 0
    /\ e2Before = <<>>
    /\ e2Out = <<>>

\* No stream is open and no callback runs.
CallbackIdle ==
    /\ rtAtlas = NoAtlas
    /\ rtRing = <<>>
    /\ rtVoices = <<>>
    /\ rtPc = "idle"
    /\ rtAtBegin = <<>>
    /\ rtPopped = <<>>
    /\ rtBefore = <<>>
    /\ rtMixIn = <<>>
    /\ rtChannels = 0
    /\ rtOut = <<>>
    /\ nRtPlays = 0

\* The process is alive: neither thread has brought it down.
Alive == cbPc # "crashed" /\ callerPc # "panicked"

\* The other threads take their steps before or after the instant at which a
\* call returns to the caller, which is the state callerPc = "returned".
Running == Alive /\ callerPc # "returned"

\* The handles a caller passes to play: the reserved 0, and 1 and 2, which
\* are in the atlas or not depending on the batch that was loaded.
Handles == {0, 1, 2}

\* The batches a caller passes to init_load_sound: none, one and two sources,
\* and an input that does not decode in either position.
Batches == {<<>>, <<"A">>, <<"B", "A">>, <<"corrupt">>, <<"A", "corrupt">>, <<"unknown">>}

\* ------------------------------------------------------------ caller thread
\* The order of build_stream's steps, which differs between the backends.
AfterStep(pc) ==
    IF backend = "cpal"
    THEN CASE pc = "bs_begin" -> "bs_device"
           [] pc = "bs_device" -> "bs_take"
           [] pc = "bs_take" -> "bs_install"
           [] pc = "bs_install" -> "bs_flag"
           [] pc = "bs_flag" -> "bs_create"
           [] pc = "bs_create" -> "bs_start"
    ELSE CASE pc = "bs_begin" -> "bs_take"
           [] pc = "bs_take" -> "bs_flag"
           [] pc = "bs_flag" -> "bs_device"
           [] pc = "bs_device" -> "bs_install"
           [] pc = "bs_install" -> "bs_create"
           [] pc = "bs_create" -> "bs_start"

\* The caller thread calls a method of the Player.
Call(name) ==
    /\ Alive
    /\ callerPc = "idle"
    /\ op' = name

\* The caller thread is at the step pc of the method it called.
At(pc) ==
    /\ Alive
    /\ callerPc = pc

\* The for loop of init_load_sound: decode each input in turn and insert the
\* RawSource; the first input that does not decode ends the loop.  count is
\* the number of inputs decoded.
RECURSIVE DecodeLoop(_, _, _)
DecodeLoop(datas, i, sounds) ==
    IF i > Len(datas) THEN [kind |-> "ok", sounds |-> sounds, count |-> i - 1]
    ELSE LET dasta == Decode(datas[i])
         IN  IF dasta.kind # "ok" THEN [kind |-> dasta.kind, sounds |-> sounds, count |-> i - 1]
             ELSE LET inserted == IdMapInsert(sounds, dasta.source)
                  IN  IF inserted.panic THEN [kind |-> "panic", sounds |-> sounds, count |-> i - 1]
                      ELSE DecodeLoop(datas, i + 1, inserted.map)

\* init_load_sound that caches what it decoded before the failing input.
InitLoadSoundPartial(datas) ==
    /\ Call("load")
    /\ LET loaded == DecodeLoop(datas, 1, IdMapNew)
       IN  /\ decoded' = loaded.count
           /\ CASE loaded.kind = "err" ->
                    /\ ret' = "None"
                    /\ callerPc' = "returned"
                    /\ cached_sources' = loaded.sounds
                    /\ UNCHANGED result
               [] loaded.kind = "panic" ->
                    /\ ret' = "panic"
                    /\ callerPc' = "panicked"
                    /\ UNCHANGED <<cached_sources, result>>
               [] loaded.kind = "ok" ->
                    /\ ret' = "-"
                    /\ callerPc' = "bs_begin"
                    /\ cached_sources' = loaded.sounds
                    /\ result' \in Orders(IdMapKeys(loaded.sounds))
    /\ UNCHANGED <<others, backend, bsErr, msLost, ringVars, stream, flagVars, globals, cbPc,
                   ghosts, counters>>

\* init_load_sound, up to its call of build_stream: a decode error returns None
\* with nothing stored; otherwise the sources are cached and result holds the
\* keys in the order the HashMap yields them.
InitLoadSound(datas) ==
    /\ Call("load")
    /\ LET loaded == DecodeLoop(datas, 1, IdMapNew)
       IN  /\ decoded' = loaded.count
           /\ CASE loaded.kind = "err" ->
                    /\ ret' = "None"
                    /\ callerPc' = "returned"
                    /\ UNCHANGED <<cached_sources, result>>
               [] loaded.kind = "panic" ->
                    /\ ret' = "panic"
                    /\ callerPc' = "panicked"
                    /\ UNCHANGED <<cached_sources, result>>
               [] loaded.kind = "ok" ->
                    /\ ret' = "-"
                    /\ callerPc' = "bs_begin"
                    /\ cached_sources' = loaded.sounds
                    /\ result' \in Orders(IdMapKeys(loaded.sounds))
    /\ UNCHANGED <<others, backend, bsErr, msLost, ringVars, stream, flagVars, globals, cbPc,
                   ghosts, counters>>

\* play that pushes only while a stream is open.
PlayOnlyWhenOpen(handle) ==
    /\ Alive
    /\ callerPc = "idle"
    /\ nPlays < MaxPlays
    /\ nPlays' = nPlays + 1
    /\ queue' = IF Len(queue) < RingCapacity /\ stream # 0 THEN Append(queue, handle) ELSE queue
    /\ playedLive' = (playedLive \/ stream # 0)
    /\ UNCHANGED <<others, backend, callerPc, callVars, cached_sources, producer, consumer, taken,
                   cbRing, stream, flagVars, globals, cbPc, issued, nErrors, nRings, nStreams,
                   nAtlases>>

\* play: let _ = self.producer.try_push(handle)
Play(handle) ==
    /\ Alive
    /\ callerPc = "idle"
    /\ nPlays < MaxPlays
    /\ nPlays' = nPlays + 1
    /\ queue' = IF Len(queue) < RingCapacity THEN Append(queue, handle) ELSE queue
    /\ playedLive' = (playedLive \/ stream # 0)
    /\ UNCHANGED <<others, backend, callerPc, callVars, cached_sources, producer, consumer, taken,
                   cbRing, stream, flagVars, globals, cbPc, issued, nErrors, nRings, nStreams,
                   nAtlases>>

\* maintain_stream, its first line: the load of device_lost.
MaintainStream ==
    /\ Call("maintain")
    /\ msLost' = device_lost
    /\ callerPc' = IF device_lost
                   THEN (IF backend = "cpal" THEN "ms_mixer" ELSE "ms_stop")
                   ELSE "ms_retry"
    /\ UNCHANGED <<others, backend, decoded, result, ret, bsErr, cached_sources, ringVars, stream,
                   flagVars, globals, cbPc, ghosts, counters>>

\* Dropping or stopping the platform stream returns once the data callback is
\* not running; the callback and the reading end it owns go with the stream.
CloseStream ==
    /\ stream # 0 => cbPc = "idle"
    /\ stream' = 0
    /\ cbRing' = 0

\* oboe: if let Some(mut s) = self.stream.take() { let _ = s.stop(); }
MsStop ==
    /\ At("ms_stop")
    /\ CloseStream
    /\ callerPc' = "ms_mixer"
    /\ UNCHANGED <<others, backend, callVars, cached_sources, producer, consumer, taken, queue,
                   flagVars, globals, cbPc, ghosts, counters>>

\* GLOBAL_MIXER = None
MsMixer ==
    /\ At("ms_mixer")
    /\ mixerSome' = FALSE
    /\ callerPc' = "ms_atlas"
    /\ UNCHANGED <<others, backend, callVars, cached_sources, ringVars, stream, flagVars, voices,
                   atlasSome, atlas, cbPc, ghosts, counters>>

\* GLOBAL_ATLAS = None
MsAtlas ==
    /\ At("ms_atlas")
    /\ atlasSome' = FALSE
    /\ callerPc' = IF backend = "cpal" THEN "ms_stream" ELSE "ms_reset"
    /\ UNCHANGED <<others, backend, callVars, cached_sources, ringVars, stream, flagVars,
                   mixerSome, voices, atlas, cbPc, ghosts, counters>>

\* The cpal maintain_stream that leaves the lost stream in self.stream.
MsStreamKeepingStream ==
    /\ At("ms_stream")
    /\ callerPc' = "ms_reset"
    /\ UNCHANGED <<others, backend, callVars, cached_sources, ringVars, stream, flagVars, globals,
                   cbPc, ghosts, counters>>

\* cpal: self.stream = None
MsStream ==
    /\ At("ms_stream")
    /\ CloseStream
    /\ callerPc' = "ms_reset"
    /\ UNCHANGED <<others, backend, callVars, cached_sources, producer, consumer, taken, queue,
                   flagVars, globals, cbPc, ghosts, counters>>

\* The reset of maintain_stream without the new ring.
MsResetKeepingRing ==
    /\ At("ms_reset")
    /\ device_lost' = FALSE
    /\ lostBy' = 0
    /\ callerPc' = "ms_retry"
    /\ UNCHANGED <<others, backend, callVars, cached_sources, ringVars, stream, globals, cbPc,
                   ghosts, counters>>

\* A new HeapRb, split into self.producer and self.consumer, and the store of
\* false to device_lost.
MsReset ==
    /\ At("ms_reset")
    /\ nRings' = nRings + 1
    /\ producer' = nRings + 1
    /\ consumer' = nRings + 1
    /\ queue' = <<>>
    /\ device_lost' = FALSE
    /\ lostBy' = 0
    /\ callerPc' = "ms_retry"
    /\ UNCHANGED <<others, backend, callVars, cached_sources, taken, cbRing, stream, globals,
                   cbPc, ghosts, nPlays, nErrors, nStreams, nAtlases>>

\* A retry that builds a stream whenever sources are cached.
MsRetryAlways ==
    /\ At("ms_retry")
    /\ callerPc' = IF cached_sources # NoSources THEN "bs_begin" ELSE "returned"
    /\ UNCHANGED <<others, backend, callVars, cached_sources, ringVars, stream, flagVars, globals,
                   cbPc, ghosts, counters>>

\* if self.cached_sources.is_some() && self.stream.is_none() { build_stream }
MsRetry ==
    /\ At("ms_retry")
    /\ callerPc' = IF cached_sources # NoSources /\ stream = 0 THEN "bs_begin" ELSE "returned"
    /\ UNCHANGED <<others, backend, callVars, cached_sources, ringVars, stream, flagVars, globals,
                   cbPc, ghosts, counters>>

\* AudioBackend::build_stream called on the Player itself.  init_load_sound
\* and maintain_stream call it only with sources cached; the call from outside
\* them is the one made with none cached, which line 77 answers.
BuildStream ==
    /\ Call("build")
    /\ cached_sources = NoSources
    /\ callerPc' = "bs_begin"
    /\ UNCHANGED <<others, backend, decoded, result, ret, bsErr, msLost, cached_sources, ringVars,
                   stream, flagVars, globals, cbPc, ghosts, counters>>

\* The call has returned; the caller thread goes on.
Done ==
    /\ At("returned")
    /\ callerPc' = "idle"
    /\ op' = "-"
    /\ decoded' = 0
    /\ result' = <<>>
    /\ ret' = "-"
    /\ bsErr' = "-"
    /\ msLost' = FALSE
    /\ UNCHANGED <<others, backend, cached_sources, ringVars, stream, flagVars, globals, cbPc,
                   ghosts, counters>>

\* ------------------------------------------------------------ build_stream
\* build_stream returns how ("Ok" or the error); init_load_sound turns that
\* into Some(result) or None, maintain_stream ignores it.
Return(how) ==
    /\ callerPc' = "returned"
    /\ bsErr' = how
    /\ ret' = IF op = "load" THEN (IF how = "Ok" THEN "Some" ELSE "None") ELSE ret
    /\ issued' = IF op = "load" /\ how = "Ok"
                 THEN issued \cup {<<result[i], cached_sources.data[result[i]].data>> :
                                     i \in DOMAIN result}
                 ELSE issued
    /\ UNCHANGED <<op, decoded, result, msLost, playedLive>>

\* build_stream without its first three lines.
BsBeginUnguarded ==
    /\ At("bs_begin")
    /\ callerPc' = AfterStep("bs_begin")
    /\ UNCHANGED <<callVars, ghosts>>
    /\ UNCHANGED <<others, backend, cached_sources, ringVars, stream, flagVars, globals, cbPc,
                   counters>>

\* let Some(sources) = &self.cached_sources else { return Ok(()) }
BsBegin ==
    /\ At("bs_begin")
    /\ IF cached_sources = NoSources
       THEN Return("Ok")
       ELSE /\ callerPc' = AfterStep("bs_begin")
            /\ UNCHANGED <<callVars, ghosts>>
    /\ UNCHANGED <<others, backend, cached_sources, ringVars, stream, flagVars, globals, cbPc,
                   counters>>

\* The query of the output device and its configuration.  cpal returns the
\* error; oboe unwraps the temporary stream it opens to read the sample rate.
BsDevice ==
    /\ At("bs_device")
    /\ \E outcome \in {"ok", "NoDevice", "Config"} :
         IF outcome = "ok"
         THEN /\ callerPc' = AfterStep("bs_device")
              /\ UNCHANGED <<callVars, ghosts>>
         ELSE IF backend = "cpal"
              THEN Return(outcome)
              ELSE /\ callerPc' = "panicked"
                   /\ bsErr' = "panic"
                   /\ UNCHANGED <<op, decoded, result, ret, msLost, ghosts>>
    /\ UNCHANGED <<others, backend, cached_sources, ringVars, stream, flagVars, globals, cbPc,
                   counters>>

\* A take that goes on when there is no consumer to take.
BsTakeUnchecked ==
    /\ At("bs_take")
    /\ taken' = consumer
    /\ consumer' = 0
    /\ callerPc' = AfterStep("bs_take")
    /\ UNCHANGED <<callVars, ghosts>>
    /\ UNCHANGED <<others, backend, cached_sources, producer, queue, cbRing, stream, flagVars,
                   globals, cbPc, counters>>

\* self.consumer.take().ok_or_else(|| "Consumer handle lost")?
BsTake ==
    /\ At("bs_take")
    /\ IF consumer = 0
       THEN /\ Return("Consumer")
            /\ UNCHANGED <<consumer, taken>>
       ELSE /\ taken' = consumer
            /\ consumer' = 0
            /\ callerPc' = AfterStep("bs_take")
            /\ UNCHANGED <<callVars, ghosts>>
    /\ UNCHANGED <<others, backend, cached_sources, producer, queue, cbRing, stream, flagVars,
                   globals, cbPc, counters>>

\* GLOBAL_MIXER = Some(Mixer::new()); GLOBAL_ATLAS = Some(build_from_sources(..))
\* The device runs at 48000 Hz, the rate "A" and "B" are recorded at.
BsInstall ==
    /\ At("bs_install")
    /\ mixerSome' = TRUE
    /\ voices' = MixerNew
    /\ atlasSome' = TRUE
    /\ nAtlases' = nAtlases + 1
    /\ \E order \in Orders(IdMapKeys(cached_sources)) :
         atlas' = BuildFromSources(cached_sources, order, DefaultRate, nAtlases + 1)
    /\ callerPc' = AfterStep("bs_install")
    /\ UNCHANGED <<others, backend, callVars, cached_sources, ringVars, stream, flagVars, cbPc,
                   ghosts, nPlays, nErrors, nRings, nStreams>>

\* self.device_lost.store(false, Ordering::SeqCst)
BsFlag ==
    /\ At("bs_flag")
    /\ device_lost' = FALSE
    /\ lostBy' = 0
    /\ callerPc' = AfterStep("bs_flag")
    /\ UNCHANGED <<others, backend, callVars, cached_sources, ringVars, stream, globals, cbPc,
                   ghosts, counters>>

\* build_output_stream / open_stream with the callback that owns the consumer;
\* on failure the callback, and the consumer in it, is dropped.
BsCreate ==
    /\ At("bs_create")
    /\ \E ok \in BOOLEAN :
         IF ok
         THEN /\ callerPc' = AfterStep("bs_create")
              /\ UNCHANGED <<callVars, ghosts, taken>>
         ELSE /\ taken' = 0
              /\ Return("Create")
    /\ UNCHANGED <<others, backend, cached_sources, producer, consumer, queue, cbRing, stream,
                   flagVars, globals, cbPc, counters>>

\* stream.play()? / stream.start()? and self.stream = Some(stream); on failure
\* the stream, and the consumer in its callback, is dropped.
BsStart ==
    /\ At("bs_start")
    /\ taken' = 0
    /\ \E ok \in BOOLEAN :
         IF ok
         THEN /\ nStreams' = nStreams + 1
              /\ stream' = nStreams + 1
              /\ cbRing' = taken
              /\ Return("Ok")
         ELSE /\ Return("Start")
              /\ UNCHANGED <<nStreams, stream, cbRing>>
    /\ UNCHANGED <<others, backend, cached_sources, producer, consumer, queue, flagVars, globals,
                   cbPc, nPlays, nErrors, nRings, nAtlases>>

\* ------------------------------------------------------------ audio thread
\* The data callback is past its is_none check while a global is None: what
\* it got from unwrap_unchecked refers to a dropped Mixer or Atlas.
Dangling ==
    /\ cbPc \in {"pop", "mix"}
    /\ ~mixerSome \/ ~atlasSome

\* The data callback begins: fill(0.0), return if a global is None, else take
\* the references with unwrap_unchecked.
CbBegin ==
    /\ Running
    /\ stream # 0
    /\ cbPc = "idle"
    /\ cbPc' = IF ~mixerSome \/ ~atlasSome THEN "idle" ELSE "pop"
    /\ UNCHANGED <<others, backend, callerPc, callVars, cached_sources, ringVars, stream,
                   flagVars, globals, ghosts, counters>>

\* while let Some(handle) = consumer.try_pop(): add the clip of a handle the
\* atlas knows.  A consumer of a replaced ring finds nothing.
CbPop ==
    /\ Running
    /\ cbPc = "pop"
    /\ IF cbRing = producer /\ queue # <<>>
       THEN /\ queue' = Tail(queue)
            /\ voices' = IF Head(queue) \in DOMAIN atlas.map
                         THEN AddSound(voices, atlas.map[Head(queue)])
                         ELSE voices
            /\ UNCHANGED cbPc
       ELSE /\ cbPc' = "mix"
            /\ UNCHANGED <<queue, voices>>
    /\ UNCHANGED <<others, backend, callerPc, callVars, cached_sources, producer, consumer, taken,
                   cbRing, stream, flagVars, mixerSome, atlasSome, atlas, ghosts, counters>>

\* mixer.mix(channels, data) on the zeroed buffer the platform handed over.
CbMix ==
    /\ Running
    /\ cbPc = "mix"
    /\ \E frames \in 1..OutFrames :
       \E channels \in (IF backend = "oboe" THEN {2} ELSE 1..MaxChannels) :
         voices' = Mix(channels, Zeros(frames * channels), atlas.buf, voices).sounds
    /\ cbPc' = "idle"
    /\ UNCHANGED <<others, backend, callerPc, callVars, cached_sources, ringVars, stream,
                   flagVars, mixerSome, atlasSome, atlas, ghosts, counters>>

\* A read through a reference to a dropped global may also fault.
CbCrash ==
    /\ Running
    /\ Dangling
    /\ cbPc' = "crashed"
    /\ UNCHANGED <<others, backend, callerPc, callVars, cached_sources, ringVars, stream,
                   flagVars, globals, ghosts, counters>>

\* The error callback of the stream: device_lost.store(true)
StreamError ==
    /\ Running
    /\ stream # 0
    /\ nErrors < MaxErrors
    /\ nErrors' = nErrors + 1
    /\ device_lost' = TRUE
    /\ lostBy' = stream
    /\ UNCHANGED <<others, backend, callerPc, callVars, cached_sources, ringVars, stream, globals,
                   cbPc, ghosts, nPlays, nRings, nStreams, nAtlases>>

PlayerNext ==
    \/ \E datas \in Batches : InitLoadSound(datas)
    \/ \E handle \in Handles : Play(handle)
    \/ MaintainStream
    \/ BuildStream
    \/ MsStop
    \/ MsMixer
    \/ MsAtlas
    \/ MsStream
    \/ MsReset
    \/ MsRetry
    \/ Done
    \/ BsBegin
    \/ BsDevice
    \/ BsTake
    \/ BsInstall
    \/ BsFlag
    \/ BsCreate
    \/ BsStart
    \/ CbBegin
    \/ CbPop
    \/ CbMix
    \/ CbCrash
    \/ StreamError

\* The Player runs; the stand-alone IdMap and Mixer are not used.
Init == PlayerInit /\ IdMapIdle /\ MixerIdle /\ ChannelInit /\ AtlasIdle /\ EndToEndInit /\ CallbackIdle

Spec == Init /\ [][PlayerNext]_vars

\* The platform keeps invoking the data callback of an open stream, on a
\* thread of its own, and every invocation runs to its end whatever the caller
\* thread does: the steps of the callback are strongly fair, since the instant
\* at which a call returns disables them only for the observation.  The
\* caller thread goes on after a call returns.
SpecLive ==
    /\ Init
    /\ [][PlayerNext]_vars
    /\ SF_vars(CbBegin)
    /\ SF_vars(CbPop)
    /\ SF_vars(CbMix)
    /\ WF_vars(Done)

\* ------------------------------------------------------------ claims, Player
\* C1: while GLOBAL_ATLAS or GLOBAL_MIXER is None, the platform stream is
\* closed and no data callback is running, so none runs or can start on a
\* discarded atlas or mixer.
C1_DiscardedOnlyAfterStreamClosed ==
    (~mixerSome \/ ~atlasSome) => (stream = 0 /\ cbPc = "idle")

\* C2: every voice of the mixer was made from the atlas that is installed, in
\* every state in which the mixer is installed or the callback is about to
\* render its voices.
C2_VoicesOfInstalledAtlas ==
    (mixerSome \/ cbPc = "mix") =>
        \A i \in DOMAIN voices : atlasSome /\ voices[i].clip.data_ptr.base = atlas.base

\* C3: a play called while no stream is open never produces a voice: as long
\* as no play was called with a stream open, the mixer has no voice.
C3_PlayWithoutStreamNeverSounds ==
    ~playedLive => voices = <<>>

\* Some input of the batch does not decode (decode returns Err), and every
\* input before it decodes.
DecodeFails(datas) ==
    \E i \in DOMAIN datas :
        /\ Decode(datas[i]).kind = "err"
        /\ \A j \in 1..(i - 1) : Decode(datas[j]).kind = "ok"

\* C4: an init_load_sound call on a batch with an input that does not decode,
\* at any position, returns None without attempting build_stream, issues no
\* handle, and leaves the cached sources, the stream, the atlas, the mixer and
\* the channel as they were.
C4_DecodeFailureIsAllOrNothing ==
    [][\A datas \in Batches :
         (InitLoadSound(datas) /\ DecodeFails(datas)) =>
             /\ ret' = "None"
             /\ callerPc' = "returned"
             /\ bsErr' = "-"
             /\ UNCHANGED <<cached_sources, stream, globals, ringVars, issued>>]_vars

\* An init_load_sound call returned None for an input that was not the first
\* of its batch, with sources cached and a stream open.
C4_Witness ==
    /\ op = "load"
    /\ callerPc = "returned"
    /\ ret = "None"
    /\ bsErr = "-"
    /\ decoded >= 1
    /\ cached_sources # NoSources
    /\ stream # 0

\* C5: init_load_sound never panics for a failure to open the stream; it
\* returns None exactly when an input did not decode or build_stream failed,
\* and otherwise Some of one distinct handle per input.
C5_LoadReturnsNoneOrHandles ==
    op = "load" =>
        /\ callerPc = "panicked" => bsErr # "panic"
        /\ callerPc = "returned" =>
               /\ ret \in {"Some", "None"}
               /\ ret = "None" <=> bsErr # "Ok"
               /\ ret = "Some" =>
                      /\ Len(result) = decoded
                      /\ Cardinality(Range(result)) = Len(result)

\* The errors of build_stream that come from the device.
DeviceErrors == {"NoDevice", "Config", "Create", "Start"}

\* C6: a maintain_stream call with cached sources returns either with a stream
\* open or after a failure of the device in this very call: with the device
\* healthy a retry opens the stream.
C6_RetryOpensStreamOnHealthyDevice ==
    (op = "maintain" /\ callerPc = "returned" /\ cached_sources # NoSources) =>
        (stream # 0 \/ bsErr \in DeviceErrors)

\* C7: a maintain_stream call that found the device-loss flag set and met no
\* failure of the device returns with a new stream open on the new channel,
\* the flag false, a mixer without voices and an empty channel.
C7_DeviceLossRecovery ==
    (op = "maintain" /\ callerPc = "returned" /\ msLost /\ bsErr \notin DeviceErrors) =>
        /\ bsErr = "Ok"
        /\ stream # 0
        /\ cbRing = producer
        /\ ~device_lost
        /\ mixerSome /\ atlasSome
        /\ voices = <<>>
        /\ queue = <<>>

\* maintain_stream recovered from a device loss: it returns with the second
\* stream open, after a trigger was played.
C7_Witness ==
    /\ op = "maintain"
    /\ callerPc = "returned"
    /\ msLost
    /\ bsErr = "Ok"
    /\ stream = 2
    /\ nPlays >= 1

\* C8: a handle returned by an init_load_sound call is not 0 and was returned
\* by no earlier call.
C8_HandlesNeverReissued ==
    [][(ret' = "Some" /\ ret # "Some") =>
         \A i \in DOMAIN result' :
             /\ result'[i] # 0
             /\ \A p \in issued : p[1] # result'[i]]_vars

\* C25: while no sources are cached, no stream is open or was ever opened, no
\* mixer and no atlas is installed, the reading end of the ring is with the
\* Player, build_stream is not past its first lines, and a build_stream that
\* has returned returned Ok.
C25_IdleIsInert ==
    cached_sources = NoSources =>
        /\ stream = 0
        /\ nStreams = 0
        /\ ~mixerSome
        /\ ~atlasSome
        /\ consumer # 0
        /\ consumer = producer
        /\ taken = 0
        /\ callerPc \notin {"bs_device", "bs_take", "bs_install", "bs_flag", "bs_create",
                             "bs_start"}
        /\ (op = "build" /\ callerPc = "returned") => bsErr = "Ok"

\* build_stream has returned with no sources cached, after a play.
C25_Witness ==
    /\ cached_sources = NoSources
    /\ op = "build"
    /\ callerPc = "returned"
    /\ nPlays > 0
    /\ queue # <<>>

\* C26: while self.stream holds a stream, the consumer its callback captured is
\* of the ring self.producer pushes to; and a trigger accepted into the ring
\* while a stream is open is popped, unless the device is lost or the process
\* ends first.
C26_SameChannel ==
    /\ [](stream # 0 => (cbRing # 0 /\ cbRing = producer))
    /\ (stream # 0 /\ queue # <<>> /\ ~device_lost) ~> (queue = <<>> \/ device_lost \/ ~Alive)

\* After the rebuild that follows a device loss, a play call was made on the
\* second stream and its trigger is in the ring the callback reads.
C26_Witness ==
    /\ stream = 2
    /\ nErrors >= 1
    /\ ~device_lost
    /\ cbRing = producer
    /\ queue # <<>>
    /\ callerPc = "idle"

\* C28: init_load_sound exposes no partial success.  When it returns None the
\* cached sources are those of the batches that returned Some, and while no
\* init_load_sound call is running the installed atlas holds clips of handles
\* that were returned only.
C28_NoPartialSuccess ==
    /\ (op = "load" /\ callerPc = "returned" /\ ret = "None") =>
           \A handle \in IdMapKeys(cached_sources) :
               <<handle, cached_sources.data[handle].data>> \in issued
    /\ (op # "load" /\ atlasSome) =>
           \A handle \in DOMAIN atlas.map : \E p \in issued : p[1] = handle

\* C29: when init_load_sound returns Some(handles), the i-th handle is that of
\* the clip decoded from the i-th input.  The inputs are inserted in order into
\* a fresh IdMap, which numbers them 1, 2, ...: the i-th input's handle is i.
C29_HandlesInInputOrder ==
    (op = "load" /\ callerPc = "returned" /\ ret = "Some") =>
        \A i \in DOMAIN result : result[i] = i

\* ================================================================== IdMap alone
\* The values stored in the IdMap, and the handles its callers pass: those it
\* can issue, and 0.
Values == {"v", "w"}
IdMapHandles == 0..IdLimit

\* insert(value)
ImInsert(value) ==
    /\ ~idmPanicked
    /\ LET inserted == IdMapInsert(idm, value)
       IN  IF inserted.panic
           THEN /\ idmPanicked' = TRUE
                /\ UNCHANGED <<idm, returned>>
           ELSE /\ idm' = inserted.map
                /\ returned' = Append(returned, inserted.handle)
                /\ UNCHANGED idmPanicked
    /\ UNCHANGED <<notIdMap, removed, idmGot>>

\* remove(handle)
ImRemove(handle) ==
    /\ ~idmPanicked
    /\ LET taken_out == IdMapRemove(idm, handle)
       IN  /\ idm' = taken_out.map
           /\ removed' = IF taken_out.value # <<>>
                         THEN removed \cup {<<handle, Len(returned)>>}
                         ELSE removed
    /\ UNCHANGED <<notIdMap, idmPanicked, returned, idmGot>>

\* get(handle)
ImGet(handle) ==
    /\ ~idmPanicked
    /\ idmGot' = [handle |-> handle, value |-> IdMapGet(idm, handle)]
    /\ UNCHANGED <<notIdMap, idm, idmPanicked, returned, removed>>

IdMapNext ==
    \/ \E value \in Values : ImInsert(value)
    \/ \E handle \in IdMapHandles : ImRemove(handle)
    \/ \E handle \in IdMapHandles : ImGet(handle)

\* An IdMap alone, as IdMap::new() makes it.
IdMapInit == PlayerInit /\ IdMapIdle /\ MixerIdle /\ ChannelInit /\ AtlasIdle /\ EndToEndInit /\ CallbackIdle

SpecIdMap == IdMapInit /\ [][IdMapNext]_vars

\* The handles whose entry a remove has deleted.
RemovedHandles == {p[1] : p \in removed}

\* C9: the handles insert has returned are 1, 2, 3, ... in this order; no
\* insert after the removal of a handle returns that handle; the map holds
\* nothing under a removed handle, and every get on one returns None.
C9_HandlesIncreaseAndStayRemoved ==
    /\ [](/\ \A i \in DOMAIN returned : returned[i] = i
          /\ \A p \in removed :
                 /\ \A i \in (p[2] + 1)..Len(returned) : returned[i] # p[1]
                 /\ IdMapGet(idm, p[1]) = <<>>)
    /\ [][\A handle \in RemovedHandles :
            ImGet(handle) => idmGot'.value = <<>>]_vars

\* Handle 1 was removed, two more inserts were made, and a get on handle 1
\* was the last get.
C9_Witness ==
    /\ \E p \in removed : p[1] = 1 /\ Len(returned) >= p[2] + 2
    /\ idmGot.handle = 1
    /\ idmGot.value = <<>>

\* ================================================================== Mixer alone
\* The atlases of one source and of two sources, laid out in either order.
MixerAtlases ==
    UNION {{BuildFromSources(DecodeLoop(datas, 1, IdMapNew).sounds, order, DefaultRate, 1) :
                order \in Orders(1..Len(datas))} : datas \in {<<"A">>, <<"B", "A">>}}

\* The values the samples of a buffer handed to mix start with: inside and
\* outside [-1.0, 1.0].
InitialSamples == {-(One + 1), 0, 1}

\* The buffers handed to mix: frames * channels samples, for no frame or more,
\* one value on the odd places and one on the even places.
OutBuffers(channels) ==
    {[k \in 1..(frames * channels) |-> IF k % 2 = 1 THEN odd ELSE even] :
        frames \in 0..OutFrames, odd \in InitialSamples, even \in InitialSamples}

MixerInit ==
    /\ mxMem \in MixerAtlases
    /\ mxSounds = MixerNew
    /\ mxOut = <<>>
    /\ mxPre = [called |-> FALSE]
    /\ mxSplit = [called |-> FALSE]

\* No call of mix has just returned.
MxAtRest == ~mxPre.called /\ ~mxSplit.called

\* add_sound(clip), with a clip of the atlas
MxAddSound(handle) ==
    /\ MxAtRest
    /\ handle \in DOMAIN mxMem.map
    /\ Len(mxSounds) < MaxVoices
    /\ mxSounds' = AddSound(mxSounds, mxMem.map[handle])
    /\ UNCHANGED <<notMixer, mxMem, mxOut, mxPre, mxSplit>>

\* mix(channels, out_data)
MxMix(channels, out_data) ==
    /\ MxAtRest
    /\ mxPre' = [called |-> TRUE, channels |-> channels, out_data |-> out_data,
                 sounds |-> mxSounds]
    /\ LET mixed == Mix(channels, out_data, mxMem.buf, mxSounds)
       IN  /\ mxSounds' = mixed.sounds
           /\ mxOut' = mixed.out_data
    /\ UNCHANGED <<notMixer, mxMem, mxSplit>>

\* Two consecutive calls mix(channels, ..) on zeroed buffers of first and
\* second frames, as two callbacks in a row make them.
MxMixSplit(channels, first, second) ==
    /\ MxAtRest
    /\ LET one == Mix(channels, Zeros(first * channels), mxMem.buf, mxSounds)
           two == Mix(channels, Zeros(second * channels), mxMem.buf, one.sounds)
       IN  /\ mxSplit' = [called |-> TRUE, channels |-> channels,
                          sizes |-> <<first, second>>, sounds |-> mxSounds,
                          outs |-> <<one.out_data, two.out_data>>]
           /\ mxSounds' = two.sounds
    /\ UNCHANGED <<notMixer, mxMem, mxOut, mxPre>>

\* The caller has read the buffer that mix filled and lets go of it.
MxDone ==
    /\ ~MxAtRest
    /\ mxPre' = [called |-> FALSE]
    /\ mxSplit' = [called |-> FALSE]
    /\ mxOut' = <<>>
    /\ UNCHANGED <<notMixer, mxMem, mxSounds>>

MixerNext ==
    \/ \E handle \in Handles : MxAddSound(handle)
    \/ MxDone
    \/ \E channels \in 1..MaxChannels : \E out_data \in OutBuffers(channels) :
         MxMix(channels, out_data)
    \/ \E channels \in 1..MaxChannels : \E first, second \in 0..OutFrames :
         MxMixSplit(channels, first, second)

\* A Mixer alone, with an atlas for its clips to point into.
MixerAloneInit == PlayerInit /\ IdMapIdle /\ MixerInit /\ ChannelInit /\ AtlasIdle /\ EndToEndInit /\ CallbackIdle

SpecMixer == MixerAloneInit /\ [][MixerNext]_vars

\* What the voice holds for the frame j of the buffer: its sample j places
\* after its cursor, or nothing once the clip has ended.
Contribution(mem, sound, j) ==
    IF sound.cursor + j < sound.clip.frames_count
    THEN mem[sound.clip.data_ptr.off + sound.cursor + j + 1]
    ELSE 0

RECURSIVE SumOfContributions(_, _, _, _)
SumOfContributions(mem, sounds, j, n) ==
    IF n = 0 THEN 0
    ELSE SumOfContributions(mem, sounds, j, n - 1) + Contribution(mem, sounds[n], j)

\* The value x brought into [lo, hi].
Bounded(x, lo, hi) == IF x < lo THEN lo ELSE IF x > hi THEN hi ELSE x

\* C10: after a mix call that found one voice or more, every sample of the
\* buffer is the value it started with plus the samples of all the voices that
\* cover its frame, brought into [-1.0, 1.0].
C10_MixIsAdditiveAndClamped ==
    (mxPre.called /\ mxPre.sounds # <<>>) =>
        /\ Len(mxOut) = Len(mxPre.out_data)
        /\ \A k \in DOMAIN mxOut :
               LET j == (k - 1) \div mxPre.channels
                   sum == SumOfContributions(mxMem.buf, mxPre.sounds, j, Len(mxPre.sounds))
               IN  /\ mxOut[k] = Bounded(mxPre.out_data[k] + sum, -One, One)
                   /\ mxOut[k] >= -One
                   /\ mxOut[k] <= One

\* A mix call found two voices or more whose samples, with the buffer's,
\* sum above 1.0 on some place and below -1.0 on another.
C10_Witness ==
    /\ mxPre.called
    /\ Len(mxPre.sounds) >= 2
    /\ \E k \in DOMAIN mxOut :
           mxPre.out_data[k] + SumOfContributions(mxMem.buf, mxPre.sounds,
               (k - 1) \div mxPre.channels, Len(mxPre.sounds)) > One
    /\ \E k \in DOMAIN mxOut :
           mxPre.out_data[k] + SumOfContributions(mxMem.buf, mxPre.sounds,
               (k - 1) \div mxPre.channels, Len(mxPre.sounds)) < -One

\* ------------------------------------------------------------ claims, Mixer
\* C11: after a mix call that found no voice, every sample of the buffer is
\* the value it started with brought into [-1.0, 1.0].
C11_EmptyMixClamps ==
    (mxPre.called /\ mxPre.sounds = <<>>) =>
        /\ Len(mxOut) = Len(mxPre.out_data)
        /\ \A k \in DOMAIN mxOut : mxOut[k] = Bounded(mxPre.out_data[k], -One, One)

\* The frame and the slot in the frame of the place k of a buffer of
\* interleaved frames.
FrameOf(k, channels) == (k - 1) \div channels
SlotOf(k, channels) == (k - 1) % channels

\* What all the voices the last mix call found hold for the frame j.
MixedIn(j) == SumOfContributions(mxMem.buf, mxPre.sounds, j, Len(mxPre.sounds))

C13_MonoAndStereoUnattenuated ==
    (mxPre.called /\ Len(mxPre.sounds) = 1 /\ mxPre.channels \in {1, 2}) =>
        LET sound == mxPre.sounds[1]
            channels == mxPre.channels
        IN  \A j \in 0..(Len(mxOut) \div channels - 1) :
                LET s == Contribution(mxMem.buf, sound, j)
                IN  /\ \A c \in 0..(channels - 1) :
                           mxOut[j * channels + c + 1] =
                               Bounded(mxPre.out_data[j * channels + c + 1] + s, -One, One)
                    /\ (channels = 2 /\ mxPre.out_data = Zeros(Len(mxOut))) =>
                           <<mxOut[2 * j + 1], mxOut[2 * j + 2]>> = <<s, s>>

\* One voice of two frames was mixed from its start into a zeroed buffer of
\* two frames of two channels.
C13_Witness ==
    /\ mxPre.called
    /\ mxPre.channels = 2
    /\ Len(mxPre.sounds) = 1
    /\ mxPre.sounds[1].clip.frames_count = 2
    /\ mxPre.sounds[1].cursor = 0
    /\ mxPre.out_data = Zeros(4)
    /\ mxOut = <<1, 1, -One, -One>>

\* How many times x occurs in the sequence.
Count(seq, x) == Cardinality({i \in DOMAIN seq : seq[i] = x})

\* The two voice lists hold the same voices, in whatever order.
SameVoices(left, right) ==
    \A x \in Range(left) \cup Range(right) : Count(left, x) = Count(right, x)

\* The voice list after n more frames were rendered of every voice: those
\* whose rendered frames reach their frames_count are gone, the others have
\* moved on by n.
RECURSIVE AfterFrames(_, _)
AfterFrames(sounds, n) ==
    IF sounds = <<>> THEN <<>>
    ELSE LET sound == Head(sounds)
         IN  IF sound.cursor + n >= sound.clip.frames_count
             THEN AfterFrames(Tail(sounds), n)
             ELSE <<[sound EXCEPT !.cursor = sound.cursor + n]>> \o AfterFrames(Tail(sounds), n)

\* C14: a mix call on a buffer of n frames removes exactly the voices whose
\* rendered frames reach their frames_count in this call; every other voice
\* stays, with n more frames rendered.
C14_RemovedWhenAllFramesRendered ==
    (mxPre.called /\ mxPre.sounds # <<>>) =>
        SameVoices(mxSounds, AfterFrames(mxPre.sounds, Len(mxPre.out_data) \div mxPre.channels))

\* C15: two consecutive mix calls on zeroed buffers of first and second
\* frames give, buffers joined, the samples of one mix call on a zeroed buffer
\* of first + second frames, and leave the same voices.
C15_SplitEquivalence ==
    mxSplit.called =>
        LET channels == mxSplit.channels
            frames == mxSplit.sizes[1] + mxSplit.sizes[2]
            whole == Mix(channels, Zeros(frames * channels), mxMem.buf, mxSplit.sounds)
        IN  /\ mxSplit.outs[1] \o mxSplit.outs[2] = whole.out_data
            /\ SameVoices(mxSounds, whole.sounds)

\* C14 for buffers of one frame or more: what remains true of C14 when no
\* call is made on a buffer without a frame.
C14_WithNonEmptyBuffers ==
    (mxPre.called /\ Len(mxPre.out_data) \div mxPre.channels > 0) =>
        C14_RemovedWhenAllFramesRendered

\* C15 for buffers of one frame or more: what remains true of C15 when
\* neither call is made on a buffer without a frame.
C15_WithNonEmptyBuffers ==
    (mxSplit.called /\ mxSplit.sizes[1] > 0 /\ mxSplit.sizes[2] > 0) =>
        C15_SplitEquivalence

\* C30: a mix call on a buffer of no frame removes the voices of zero-length
\* clips only; every voice that still has frames to render stays in the
\* list, its cursor unchanged.
C30_ZeroFrameMixKeepsVoices ==
    (mxPre.called /\ Len(mxPre.out_data) \div mxPre.channels = 0) =>
        SameVoices(mxSounds, SelectSeq(mxPre.sounds,
                                       LAMBDA sound : sound.cursor < sound.clip.frames_count))

\* ================================================================== trigger channel alone
\* The ring between play and the data callback, by itself: the caller thread
\* pushes, the audio thread pops, maintain_stream replaces the ring after a
\* device loss.  HeapRb is the ringbuf crate's single-producer
\* single-consumer ring: try_push refuses when capacity handles are pending,
\* try_pop takes the oldest pending handle.

\* A play whose push overwrites the oldest pending handle when the ring is full.
ChPlayOverwriting(handle) ==
    /\ nTriggers < MaxTriggers
    /\ nTriggers' = nTriggers + 1
    /\ chQueue' = IF Len(chQueue) < RingCapacity THEN Append(chQueue, handle)
                  ELSE Append(Tail(chQueue), handle)
    /\ chAccepted' = Append(chAccepted, handle)
    /\ UNCHANGED <<notChannel, chPopped, chDropped>>

\* play: let _ = self.producer.try_push(handle)
ChPlay(handle) ==
    /\ nTriggers < MaxTriggers
    /\ nTriggers' = nTriggers + 1
    /\ IF Len(chQueue) < RingCapacity
       THEN /\ chQueue' = Append(chQueue, handle)
            /\ chAccepted' = Append(chAccepted, handle)
            /\ UNCHANGED chDropped
       ELSE /\ chDropped' = Append(chDropped, handle)
            /\ UNCHANGED <<chQueue, chAccepted>>
    /\ UNCHANGED <<notChannel, chPopped>>

\* A callback that takes the newest pending handle.
ChPopNewest ==
    /\ chQueue # <<>>
    /\ chPopped' = Append(chPopped, chQueue[Len(chQueue)])
    /\ chQueue' = SubSeq(chQueue, 1, Len(chQueue) - 1)
    /\ UNCHANGED <<notChannel, chAccepted, chDropped, nTriggers>>

\* The data callback, one turn of: while let Some(handle) = consumer.try_pop()
ChPop ==
    /\ chQueue # <<>>
    /\ chPopped' = Append(chPopped, Head(chQueue))
    /\ chQueue' = Tail(chQueue)
    /\ UNCHANGED <<notChannel, chAccepted, chDropped, nTriggers>>

\* maintain_stream after a device loss: the stream is gone, and a new ring
\* takes the place of the old one, whose pending handles go with it.
ChReplace ==
    /\ chAccepted # <<>> \/ chDropped # <<>>
    /\ chQueue' = <<>>
    /\ chAccepted' = <<>>
    /\ chPopped' = <<>>
    /\ chDropped' = <<>>
    /\ UNCHANGED <<notChannel, nTriggers>>

ChannelNext ==
    \/ \E handle \in Handles : ChPlay(handle)
    \/ ChPop
    \/ ChReplace

\* The trigger channel runs; nothing else does.
ChannelAloneInit == PlayerInit /\ IdMapIdle /\ MixerIdle /\ ChannelInit /\ AtlasIdle /\ EndToEndInit /\ CallbackIdle

SpecChannel == ChannelAloneInit /\ [][ChannelNext]_vars

\* ------------------------------------------------------------ claims, trigger channel
\* C16: the trigger channel is FIFO.  At every instant the handles the
\* callback has popped from a ring, followed by the handles still pending in
\* it, are the handles the accepted play calls pushed into it, in the order
\* in which they were pushed: none lost, none twice, none out of order.
C16_ChannelIsFifo == chAccepted = chPopped \o chQueue

\* The callback has popped two different handles and another is pending,
\* after a play call that was refused.
C16_Witness ==
    /\ Len(chPopped) >= 2
    /\ chPopped[1] # chPopped[2]
    /\ chQueue # <<>>
    /\ chDropped # <<>>

\* C17: the ring never holds more than RingCapacity handles (128 in the
\* source); a play call made while that many are pending returns (it is
\* always possible), its handle is dropped, and the pending handles keep
\* their values and order.
C17_FullRingDropsPlay ==
    /\ [](Len(chQueue) <= RingCapacity)
    /\ [](nTriggers < MaxTriggers => \A handle \in Handles : ENABLED ChPlay(handle))
    /\ [][(nTriggers' # nTriggers /\ Len(chQueue) = RingCapacity) =>
            /\ chQueue' = chQueue
            /\ chAccepted' = chAccepted
            /\ Len(chDropped') = Len(chDropped) + 1]_vars

\* A play call was refused and the ring is still full.
C17_Witness ==
    /\ chDropped # <<>>
    /\ Len(chQueue) = RingCapacity
    /\ \E i, j \in 1..Len(chQueue) : chQueue[i] # chQueue[j]

\* ================================================================== atlas alone
\* build_from_sources by itself, on a map of one or two sources and a device
\* rate.

\* The samples of a source of n frames: ((k * k) % 5) - 2 for frame k, which
\* runs over the whole range -1.0 .. 1.0.
Waveform(n) == [k \in 1..n |-> ((k * k) % 5) - One]

RawSource(n, rate) == [data |-> Waveform(n), sample_rate |-> rate, frames_count |-> n]

\* The rates of the sources and of the device.
Rates == {8000, 44100, DefaultRate}

\* The maps handed to build_from_sources: one source of up to MaxSourceFrames
\* frames or of LongFrames frames, or two sources of up to MaxSourceFrames
\* frames, each at any of the rates.
SourceMaps ==
    LET short == {RawSource(n, rate) : n \in 0..MaxSourceFrames, rate \in Rates}
        long == {RawSource(LongFrames, rate) : rate \in Rates}
        oneShort == {IdMapInsert(IdMapNew, a).map : a \in short}
        oneLong == {IdMapInsert(IdMapNew, a).map : a \in long}
        two == {IdMapInsert(m, b).map : m \in oneShort, b \in short}
    IN  oneShort \cup oneLong \cup two

AtlasInit ==
    /\ atSources \in SourceMaps
    /\ atDeviceRate \in Rates
    /\ atAtlas = NoAtlas
    /\ atBuiltAt = <<>>

\* SoundAtlas::build_from_sources(sources, device_sample_rate), the HashMap
\* yielding the sources in any order.
AtBuild ==
    /\ atAtlas = NoAtlas
    /\ \E order \in Orders(IdMapKeys(atSources)) :
         atAtlas' = BuildFromSources(atSources, order, atDeviceRate, 1)
    /\ atBuiltAt' = <<atDeviceRate>>
    /\ UNCHANGED <<notAtlas, atSources, atDeviceRate>>

\* A rebuild that opens the stream at the new rate and leaves the atlas of
\* the previous build installed.
AtRebuildKeepingAtlas(rate) ==
    /\ atAtlas # NoAtlas
    /\ Len(atBuiltAt) < MaxBuilds
    /\ atDeviceRate' = rate
    /\ atBuiltAt' = Append(atBuiltAt, rate)
    /\ UNCHANGED <<notAtlas, atSources, atAtlas>>

\* build_stream once more, as maintain_stream calls it after a device loss:
\* the device, possibly another one, reports its rate, and the atlas that is
\* installed is build_from_sources(sources, device_sample_rate) of the cached
\* sources, in a buffer of its own.
AtRebuild(rate) ==
    /\ atAtlas # NoAtlas
    /\ Len(atBuiltAt) < MaxBuilds
    /\ atDeviceRate' = rate
    /\ atBuiltAt' = Append(atBuiltAt, rate)
    /\ \E order \in Orders(IdMapKeys(atSources)) :
         atAtlas' = BuildFromSources(atSources, order, rate, Len(atBuiltAt) + 1)
    /\ UNCHANGED <<notAtlas, atSources>>

AtlasNext ==
    \/ AtBuild
    \/ \E rate \in Rates : AtRebuild(rate)

\* build_from_sources is the same code on both backends.
AtlasAloneInit ==
    /\ PlayerInit /\ IdMapIdle /\ MixerIdle /\ ChannelInit /\ AtlasInit /\ EndToEndInit
    /\ CallbackIdle
    /\ backend = "cpal"

SpecAtlas == AtlasAloneInit /\ [][AtlasNext]_vars

\* ------------------------------------------------------------ claims, atlas
AtBuilt == atAtlas # NoAtlas

\* The samples of the atlas the clip of the handle points at.
ClipSamples(a, handle) ==
    LET clip == a.map[handle]
    IN  SubSeq(a.buf, clip.data_ptr.off + 1, clip.data_ptr.off + clip.frames_count)

\* C19: a source whose native rate is the device rate is copied.  Its clip
\* has the source's frame count, and the atlas samples of the clip are the
\* source's samples, one by one.
C19_SameRateIsCopied ==
    AtBuilt =>
        \A handle \in IdMapKeys(atSources) :
            LET source == atSources.data[handle]
            IN  source.sample_rate = atDeviceRate =>
                    /\ handle \in DOMAIN atAtlas.map
                    /\ atAtlas.map[handle].frames_count = source.frames_count
                    /\ ClipSamples(atAtlas, handle) = source.data

\* Two sources were built into an atlas, the one placed second at the
\* device's rate and of two frames or more, the other one resampled.
C19_Witness ==
    /\ AtBuilt
    /\ \E h, g \in IdMapKeys(atSources) :
         /\ atSources.data[h].sample_rate = atDeviceRate
         /\ atSources.data[h].frames_count >= 2
         /\ atAtlas.map[h].data_ptr.off > 0
         /\ atSources.data[g].sample_rate # atDeviceRate
         /\ atSources.data[g].frames_count >= 1

\* C21: every clip of the atlas starts at a multiple of 16 samples, whatever
\* the frame counts and rates of the sources.
C21_ClipsAligned ==
    AtBuilt =>
        \A handle \in DOMAIN atAtlas.map :
            atAtlas.map[handle].data_ptr.off % AtlasAlign = 0

\* A clip starts at the second multiple of 16 or later, behind a resampled
\* clip whose length is no multiple of 16.
C21_Witness ==
    /\ AtBuilt
    /\ \E h, g \in DOMAIN atAtlas.map :
         /\ atAtlas.map[h].data_ptr.off >= 2 * AtlasAlign
         /\ atAtlas.map[g].data_ptr.off = 0
         /\ atAtlas.map[g].frames_count % AtlasAlign # 0
         /\ atSources.data[g].sample_rate # atDeviceRate

\* C27: the atlas installed after any build, the first or a later one at
\* whatever rate, is in the buffer of that build, holds exactly the handles of
\* the cached sources, and the clip of each handle is its source's samples if
\* the source is at the device's rate and one resample of the source's samples
\* to the device's rate otherwise.
C27_RebuiltFromSources ==
    AtBuilt =>
        /\ atAtlas.base = Len(atBuiltAt)
        /\ DOMAIN atAtlas.map = IdMapKeys(atSources)
        /\ \A handle \in IdMapKeys(atSources) :
             LET source == atSources.data[handle]
                 clip == atAtlas.map[handle]
                 same == source.sample_rate = atDeviceRate
             IN  /\ clip.data_ptr.base = atAtlas.base
                 /\ clip.frames_count =
                        IF same THEN source.frames_count
                        ELSE TargetFramesCount(source.frames_count, source.sample_rate,
                                               atDeviceRate)
                 /\ ClipSamples(atAtlas, handle) =
                        IF same THEN source.data ELSE PerformResample(source, atDeviceRate)

\* The atlas was rebuilt at another rate: a source that was copied by the
\* first build is resampled by the second, and another one that was resampled
\* by the first is resampled again, or copied, by the second.
C27_Witness ==
    /\ Len(atBuiltAt) = 2
    /\ atBuiltAt[1] # atBuiltAt[2]
    /\ atDeviceRate = atBuiltAt[2]
    /\ \E h, g \in IdMapKeys(atSources) :
         /\ atSources.data[h].sample_rate = atBuiltAt[1]
         /\ atSources.data[h].frames_count >= 2
         /\ atSources.data[g].sample_rate # atBuiltAt[1]
         /\ atSources.data[g].frames_count >= 2

\* ceil(n * rt / rs), in exact arithmetic.
ExactFrames(n, rs, rt) == (n * rt + rs - 1) \div rs

\* C20: a source of Ns frames at rate Rs resampled to another rate Rt has
\* exactly ceil(Ns / Rs * Rt) frames, the exact rational value.
C20_ResampledFrameCount ==
    AtBuilt =>
        \A handle \in IdMapKeys(atSources) :
            LET source == atSources.data[handle]
            IN  source.sample_rate # atDeviceRate =>
                    atAtlas.map[handle].frames_count =
                        ExactFrames(source.frames_count, source.sample_rate, atDeviceRate)

\* ================================================================== one clip, end to end
\* One source loaded, one play, and the callbacks that follow, on a device
\* that stays healthy and runs at the source's rate.

\* data.fill(0.0)
Fill(data) == [k \in 1..Len(data) |-> 0]

\* while let Some(handle) = consumer.try_pop() { if let Some(map) =
\* atlas.1.get(&handle) { mixer.add_sound(*map) } }
RECURSIVE PopAll(_, _, _)
PopAll(ring, map, sounds) ==
    IF ring = <<>> THEN sounds
    ELSE PopAll(Tail(ring), map,
                IF Head(ring) \in DOMAIN map THEN AddSound(sounds, map[Head(ring)]) ELSE sounds)

\* The channel counts the opened device may report: oboe opens a stereo
\* stream, cpal takes the default configuration of the device.
DeviceChannels == IF backend = "oboe" THEN {2} ELSE 1..MaxChannels

\* init_load_sound(vec![data]) on a healthy device: decode, cache, and
\* build_stream, which builds the atlas at the device's rate, installs a new
\* mixer and starts the stream.
E2Load(data, channels) ==
    /\ e2Pc = "new"
    /\ Decode(data).kind = "ok"
    /\ LET inserted == IdMapInsert(IdMapNew, Decode(data).source)
       IN  /\ e2Sources' = inserted.map
           /\ e2Handle' = inserted.handle
           /\ e2Atlas' = BuildFromSources(inserted.map, <<inserted.handle>>,
                                          Decode(data).source.sample_rate, 1)
    /\ e2Voices' = MixerNew
    /\ e2Channels' = channels
    /\ e2Pc' = "loaded"
    /\ UNCHANGED <<notEndToEnd, e2Ring, e2Played, e2First, e2Before, e2Out>>

\* play(handle), once
E2Play(handle) ==
    /\ e2Pc = "loaded"
    /\ e2Ring' = IF Len(e2Ring) < RingCapacity THEN Append(e2Ring, handle) ELSE e2Ring
    /\ e2Played' = handle
    /\ e2Pc' = "played"
    /\ UNCHANGED <<notEndToEnd, e2Sources, e2Handle, e2Channels, e2Atlas, e2Voices, e2First,
                   e2Before, e2Out>>

\* A data callback that mixes into the buffer as the platform handed it over.
E2CallbackWithoutFill(data) ==
    /\ e2Pc \in {"loaded", "played", "first"}
    /\ LET mixed == Mix(e2Channels, data, e2Atlas.buf, PopAll(e2Ring, e2Atlas.map, e2Voices))
       IN  /\ e2Out' = mixed.out_data
           /\ e2Voices' = mixed.sounds
    /\ e2Ring' = <<>>
    /\ e2Before' = data
    /\ e2First' = IF e2Pc = "played" THEN Len(data) \div e2Channels ELSE e2First
    /\ e2Pc' = CASE e2Pc = "loaded" -> "loaded"
                 [] e2Pc = "played" -> "first"
                 [] e2Pc = "first" -> "second"
    /\ UNCHANGED <<notEndToEnd, e2Sources, e2Handle, e2Channels, e2Atlas, e2Played>>

\* The data callback on the buffer data: fill, drain the ring, mix.
E2Callback(data) ==
    /\ e2Pc \in {"loaded", "played", "first"}
    /\ LET mixed == Mix(e2Channels, Fill(data), e2Atlas.buf,
                        PopAll(e2Ring, e2Atlas.map, e2Voices))
       IN  /\ e2Out' = mixed.out_data
           /\ e2Voices' = mixed.sounds
    /\ e2Ring' = <<>>
    /\ e2Before' = data
    /\ e2First' = IF e2Pc = "played" THEN Len(data) \div e2Channels ELSE e2First
    /\ e2Pc' = CASE e2Pc = "loaded" -> "loaded"
                 [] e2Pc = "played" -> "first"
                 [] e2Pc = "first" -> "second"
    /\ UNCHANGED <<notEndToEnd, e2Sources, e2Handle, e2Channels, e2Atlas, e2Played>>

EndToEndNext ==
    \/ \E data \in ValidInputs : \E channels \in DeviceChannels : E2Load(data, channels)
    \/ \E handle \in Handles : E2Play(handle)
    \/ \E data \in OutBuffers(e2Channels) : E2Callback(data)

EndToEndAloneInit ==
    PlayerInit /\ IdMapIdle /\ MixerIdle /\ ChannelInit /\ AtlasIdle /\ EndToEndInit /\ CallbackIdle

SpecEndToEnd == EndToEndAloneInit /\ [][EndToEndNext]_vars

\* ------------------------------------------------------------ claims, end to end
\* The one source that was loaded, and its frame count N.
E2Source == e2Sources.data[e2Handle]

\* The case of C18: a device of two channels, play called with the handle
\* that was returned, and a first callback of N frames.
E2Case ==
    /\ e2Pc \in {"first", "second"}
    /\ e2Channels = 2
    /\ e2Played = e2Handle
    /\ e2First = E2Source.frames_count

\* C18: with one N-frame source loaded at the device's rate into a device of
\* two channels and play called once, the first callback of N frames outputs
\* each source sample on both channels of its frame, and the next callback
\* outputs zeros only and leaves no voice in the mixer, whatever the buffers
\* held when the callbacks began.
C18_EndToEnd ==
    E2Case =>
        /\ e2Pc = "first" =>
             /\ Len(e2Out) = 2 * E2Source.frames_count
             /\ \A j \in 1..E2Source.frames_count :
                  /\ e2Out[2 * j - 1] = E2Source.data[j]
                  /\ e2Out[2 * j] = E2Source.data[j]
        /\ e2Pc = "second" =>
             /\ \A k \in 1..Len(e2Out) : e2Out[k] = 0
             /\ e2Voices = <<>>

\* The second callback has returned, on a buffer of one frame or more that
\* held something other than zeros, after a first callback of two frames.
C18_Witness ==
    /\ E2Case
    /\ e2Pc = "second"
    /\ E2Source.frames_count = 2
    /\ Len(e2Before) >= 2
    /\ \E k \in 1..Len(e2Before) : e2Before[k] # 0

\* ================================================================== data callback alone
\* The data callback of an open stream on a healthy device, with the caller
\* thread calling play: the atlas and the mixer are installed and stay, the
\* platform asks for one frame or more in each invocation.

CallbackInit ==
    /\ rtAtlas \in MixerAtlases
    /\ rtRing = <<>>
    /\ rtVoices = MixerNew
    /\ rtPc = "idle"
    /\ rtAtBegin = <<>>
    /\ rtPopped = <<>>
    /\ rtBefore = <<>>
    /\ rtMixIn = <<>>
    /\ rtChannels = 0
    /\ rtOut = <<>>
    /\ nRtPlays = 0

\* play: let _ = self.producer.try_push(handle).  The caller thread runs at
\* any time except the instant at which mix has just returned.
RtPlay(handle) ==
    /\ rtPc # "mixed"
    /\ nRtPlays < MaxRtPlays
    /\ nRtPlays' = nRtPlays + 1
    /\ rtRing' = IF Len(rtRing) < RingCapacity THEN Append(rtRing, handle) ELSE rtRing
    /\ UNCHANGED <<notCallback, rtAtlas, rtVoices, rtPc, rtAtBegin, rtPopped, rtBefore,
                   rtMixIn, rtChannels, rtOut>>

\* The invocation begins: data.fill(0.0), both globals are Some.
RtBegin ==
    /\ rtPc = "idle"
    /\ rtPc' = "pop"
    /\ rtAtBegin' = rtRing
    /\ rtBefore' = rtVoices
    /\ UNCHANGED <<notCallback, rtAtlas, rtRing, rtVoices, rtPopped, rtMixIn, rtChannels,
                   rtOut, nRtPlays>>

\* An if let in place of the while let: one handle at most is popped.
RtPopOnce ==
    /\ rtPc = "pop"
    /\ IF rtRing # <<>> /\ rtPopped = <<>>
       THEN /\ rtRing' = Tail(rtRing)
            /\ rtPopped' = Append(rtPopped, Head(rtRing))
            /\ rtVoices' = IF Head(rtRing) \in DOMAIN rtAtlas.map
                           THEN AddSound(rtVoices, rtAtlas.map[Head(rtRing)])
                           ELSE rtVoices
            /\ UNCHANGED rtPc
       ELSE /\ rtPc' = "mix"
            /\ UNCHANGED <<rtRing, rtPopped, rtVoices>>
    /\ UNCHANGED <<notCallback, rtAtlas, rtAtBegin, rtBefore, rtMixIn, rtChannels, rtOut,
                   nRtPlays>>

\* A loop that ends at the first handle the atlas does not know.
RtPopUntilUnknown ==
    /\ rtPc = "pop"
    /\ IF rtRing # <<>>
       THEN /\ rtRing' = Tail(rtRing)
            /\ rtPopped' = Append(rtPopped, Head(rtRing))
            /\ IF Head(rtRing) \in DOMAIN rtAtlas.map
               THEN /\ rtVoices' = AddSound(rtVoices, rtAtlas.map[Head(rtRing)])
                    /\ UNCHANGED rtPc
               ELSE /\ rtPc' = "mix"
                    /\ UNCHANGED rtVoices
       ELSE /\ rtPc' = "mix"
            /\ UNCHANGED <<rtRing, rtPopped, rtVoices>>
    /\ UNCHANGED <<notCallback, rtAtlas, rtAtBegin, rtBefore, rtMixIn, rtChannels, rtOut,
                   nRtPlays>>

\* One turn of: while let Some(handle) = consumer.try_pop() { if let
\* Some(map) = atlas.1.get(&handle) { mixer.add_sound(*map) } }
RtPop ==
    /\ rtPc = "pop"
    /\ IF rtRing # <<>>
       THEN /\ rtRing' = Tail(rtRing)
            /\ rtPopped' = Append(rtPopped, Head(rtRing))
            /\ rtVoices' = IF Head(rtRing) \in DOMAIN rtAtlas.map
                           THEN AddSound(rtVoices, rtAtlas.map[Head(rtRing)])
                           ELSE rtVoices
            /\ UNCHANGED rtPc
       ELSE /\ rtPc' = "mix"
            /\ UNCHANGED <<rtRing, rtPopped, rtVoices>>
    /\ UNCHANGED <<notCallback, rtAtlas, rtAtBegin, rtBefore, rtMixIn, rtChannels, rtOut,
                   nRtPlays>>

\* mixer.mix(channels, data), on the zeroed buffer of frames frames.
RtMix(channels, frames) ==
    /\ rtPc = "mix"
    /\ LET mixed == Mix(channels, Zeros(frames * channels), rtAtlas.buf, rtVoices)
       IN  /\ rtVoices' = mixed.sounds
           /\ rtOut' = mixed.out_data
    /\ rtMixIn' = rtVoices
    /\ rtChannels' = channels
    /\ rtPc' = "mixed"
    /\ UNCHANGED <<notCallback, rtAtlas, rtRing, rtAtBegin, rtPopped, rtBefore, nRtPlays>>

\* The invocation returns.
RtDone ==
    /\ rtPc = "mixed"
    /\ rtPc' = "idle"
    /\ rtAtBegin' = <<>>
    /\ rtPopped' = <<>>
    /\ rtBefore' = <<>>
    /\ rtMixIn' = <<>>
    /\ rtChannels' = 0
    /\ rtOut' = <<>>
    /\ UNCHANGED <<notCallback, rtAtlas, rtRing, rtVoices, nRtPlays>>

CallbackNext ==
    \/ \E handle \in Handles : RtPlay(handle)
    \/ RtBegin
    \/ RtPop
    \/ \E channels \in DeviceChannels : \E frames \in 1..OutFrames : RtMix(channels, frames)
    \/ RtDone

CallbackAloneInit ==
    /\ PlayerInit /\ IdMapIdle /\ MixerIdle /\ ChannelInit /\ AtlasIdle /\ EndToEndInit
    /\ CallbackInit

SpecCallback == CallbackAloneInit /\ [][CallbackNext]_vars

\* ------------------------------------------------------------ claims, data callback
\* seq starts with the whole of start.
StartsWith(seq, start) ==
    /\ Len(start) <= Len(seq)
    /\ \A i \in 1..Len(start) : seq[i] = start[i]

\* The handles of popped that the atlas knows, in order.
KnownOf(popped) == SelectSeq(popped, LAMBDA handle : handle \in DOMAIN rtAtlas.map)

\* One voice at cursor 0 for every handle of popped that the atlas knows.
StartedBy(popped) ==
    [i \in 1..Len(KnownOf(popped)) |-> [clip |-> rtAtlas.map[KnownOf(popped)[i]], cursor |-> 0]]

\* C22: a trigger starts on the callback that first observes it.  Every
\* handle pending when an invocation begins is popped in it before mix runs;
\* the voices handed to mix are those the invocation found plus one voice at
\* cursor 0 per popped handle of the atlas (k for a handle popped k times);
\* and the buffer holds, frame by frame, the samples of all of them from
\* their cursors on, the new voices from their first frame.
C22_TriggerStartsOnFirstCallback ==
    /\ rtPc \in {"mix", "mixed"} => StartsWith(rtPopped, rtAtBegin)
    /\ rtPc = "mixed" =>
         LET expected == rtBefore \o StartedBy(rtPopped)
         IN  /\ rtMixIn = expected
             /\ \A handle \in DOMAIN rtAtlas.map :
                  Count(SubSeq(rtMixIn, Len(rtBefore) + 1, Len(rtMixIn)),
                        [clip |-> rtAtlas.map[handle], cursor |-> 0])
                    = Count(rtPopped, handle)
             /\ \A k \in DOMAIN rtOut :
                  rtOut[k] = Bounded(SumOfContributions(rtAtlas.buf, expected,
                                         (k - 1) \div rtChannels, Len(expected)), -One, One)

\* mix has returned in an invocation that found a voice playing and began
\* with the same handle pending twice.
C22_Witness ==
    /\ rtPc = "mixed"
    /\ rtBefore # <<>>
    /\ Len(rtAtBegin) = 2
    /\ rtAtBegin[1] = rtAtBegin[2]
    /\ rtAtBegin[1] \in DOMAIN rtAtlas.map
    /\ \E k \in DOMAIN rtOut : rtOut[k] # 0

\* C23: the voice list never holds more voices than the capacity the Mixer's
\* Vec was made with (128 in the source), so that add_sound never grows it
\* inside the callback.
C23_VoicesWithinCapacity == Len(rtVoices) <= VoiceCapacity

\* C24: a handle the atlas does not know is a dropped trigger.  It is popped,
\* it adds no voice, and the handles queued behind it are processed in the
\* same invocation: the voices handed to mix are those the invocation found
\* plus one per popped handle the atlas knows, and an invocation with no
\* voice at all leaves the buffer zeroed.
C24_UnknownHandleIsDropped ==
    rtPc = "mixed" =>
        LET known == KnownOf(rtPopped)
        IN  /\ StartsWith(rtPopped, rtAtBegin)
            /\ Len(rtMixIn) = Len(rtBefore) + Len(known)
            /\ SubSeq(rtMixIn, 1, Len(rtBefore)) = rtBefore
            /\ \A i \in 1..Len(known) :
                 rtMixIn[Len(rtBefore) + i] = [clip |-> rtAtlas.map[known[i]], cursor |-> 0]
            /\ (known = <<>> /\ rtBefore = <<>>) =>
                 /\ rtVoices = <<>>
                 /\ \A k \in DOMAIN rtOut : rtOut[k] = 0

\* mix has returned in an invocation that began with a handle the atlas
\* does not know at the head of the ring and one it knows behind it.
C24_Witness ==
    /\ rtPc = "mixed"
    /\ Len(rtAtBegin) = 2
    /\ rtAtBegin[1] \notin DOMAIN rtAtlas.map
    /\ rtAtBegin[2] \in DOMAIN rtAtlas.map
    /\ Len(rtMixIn) = Len(rtBefore) + 1

\* ================================================================== further claims
\* C31: while a stream is open and no call is under way, the installed atlas
\* is the one of the cached sources: the same handles, and under each handle
\* the samples of the cached source (the device runs at the sources' rate).
C31_AtlasOfCachedSources ==
    (stream # 0 /\ atlasSome /\ callerPc \in {"idle", "returned"}) =>
        /\ DOMAIN atlas.map = IdMapKeys(cached_sources)
        /\ \A handle \in DOMAIN atlas.map :
             ClipSamples(atlas, handle) = cached_sources.data[handle].data

\* ================================================================== Mixer at f32 precision
\* The samples here are f32 values counted in units of 2^-24, the spacing of
\* the f32 values between 0.5 and 1.0: F32One stands for 1.0, and every
\* multiple of the unit up to 1.0 in magnitude is an f32 value.
F32One == Pow2(MantissaBits)

\* a + b in f32, for f32 values a and b: the sum rounded to a mantissa of 24
\* bits, to nearest, ties to even.
F32Add(a, b) ==
    LET s == a + b
        n == IF s < 0 THEN -s ELSE s
        cut == BitLen(n) - MantissaBits
    IN  IF cut <= 0 THEN s
        ELSE LET r == F32Round(n \div Pow2(cut - 1), n % Pow2(cut - 1) # 0, cut)
                 v == r[1] * Pow2(r[2])
             IN  IF s < 0 THEN -v ELSE v

\* The match on channels with += in f32: what AddFrames adds to a place of a
\* zeroed buffer is the sample the voice has for that place.
AddFramesF32(channels, out_data, mem, sound, mix_frames) ==
    LET added == AddFrames(channels, Zeros(Len(out_data)), mem, sound, mix_frames)
    IN  [k \in 1..Len(out_data) |-> F32Add(out_data[k], added[k])]

\* A loop that moves on to i + 1 after swap_remove(i) as well.
RECURSIVE MixLoopF32Skipping(_, _, _, _, _, _, _)
MixLoopF32Skipping(channels, out_frames, mem, sounds, out_data, i, exact) ==
    IF ~(i < Len(sounds)) THEN [sounds |-> sounds, out_data |-> out_data, exact |-> exact]
    ELSE LET sound == sounds[i + 1]
             mix_frames == Min(out_frames, sound.clip.frames_count - sound.cursor)
         IN  IF mix_frames = 0
             THEN MixLoopF32Skipping(channels, out_frames, mem, SwapRemove(sounds, i + 1),
                                     out_data, i + 1, exact)
             ELSE LET mixed == AddFramesF32(channels, out_data, mem, sound, mix_frames)
                      cursor == sound.cursor + mix_frames
                      advanced == [sounds EXCEPT ![i + 1].cursor = cursor]
                      still == exact /\ mixed = AddFrames(channels, out_data, mem, sound,
                                                          mix_frames)
                  IN  IF cursor >= sound.clip.frames_count
                      THEN MixLoopF32Skipping(channels, out_frames, mem,
                                              SwapRemove(advanced, i + 1), mixed, i + 1, still)
                      ELSE MixLoopF32Skipping(channels, out_frames, mem, advanced, mixed,
                                              i + 1, still)

\* The while loop of mix with the additions in f32.  exact records whether
\* every addition so far gave the exact sum.
RECURSIVE MixLoopF32(_, _, _, _, _, _, _)
MixLoopF32(channels, out_frames, mem, sounds, out_data, i, exact) ==
    IF ~(i < Len(sounds)) THEN [sounds |-> sounds, out_data |-> out_data, exact |-> exact]
    ELSE LET sound == sounds[i + 1]
             mix_frames == Min(out_frames, sound.clip.frames_count - sound.cursor)
         IN  IF mix_frames = 0
             THEN MixLoopF32(channels, out_frames, mem, SwapRemove(sounds, i + 1), out_data, i,
                             exact)
             ELSE LET mixed == AddFramesF32(channels, out_data, mem, sound, mix_frames)
                      cursor == sound.cursor + mix_frames
                      advanced == [sounds EXCEPT ![i + 1].cursor = cursor]
                      still == exact /\ mixed = AddFrames(channels, out_data, mem, sound,
                                                          mix_frames)
                  IN  IF cursor >= sound.clip.frames_count
                      THEN MixLoopF32(channels, out_frames, mem, SwapRemove(advanced, i + 1),
                                      mixed, i, still)
                      ELSE MixLoopF32(channels, out_frames, mem, advanced, mixed, i + 1, still)

\* Mixer::mix(channels, out_data) with the additions in f32.
MixF32(channels, out_data, mem, sounds) ==
    IF sounds = <<>> THEN [sounds |-> sounds, out_data |-> out_data, exact |-> TRUE]
    ELSE LET out_frames == Len(out_data) \div channels
             done == MixLoopF32(channels, out_frames, mem, sounds, out_data, 0, TRUE)
         IN  [sounds |-> done.sounds,
              out_data |-> [k \in 1..Len(out_data) |->
                               Bounded(done.out_data[k], -F32One, F32One)],
              exact |-> done.exact]

\* Three sources at the device's rate: 1.0; the smallest step below 1.0 and
\* then 0.5; -0.5 and then the smallest step.
F32Sources ==
    LET one == [data |-> <<F32One>>, sample_rate |-> DefaultRate, frames_count |-> 1]
        two == [data |-> <<1, F32One \div 2>>, sample_rate |-> DefaultRate, frames_count |-> 2]
        three == [data |-> <<-(F32One \div 2), 1>>, sample_rate |-> DefaultRate,
                  frames_count |-> 2]
    IN  IdMapInsert(IdMapInsert(IdMapInsert(IdMapNew, one).map, two).map, three).map

\* The atlas of the three sources, laid out in the order of their handles:
\* where a clip lies in the atlas does not enter what mix adds.
MixF32Init ==
    /\ mxMem = BuildFromSources(F32Sources, <<1, 2, 3>>, DefaultRate, 1)
    /\ mxSounds = MixerNew
    /\ mxOut = <<>>
    /\ mxPre = [called |-> FALSE]
    /\ mxSplit = [called |-> FALSE]

\* add_sound(clip), with a clip of the atlas
MfAddSound(handle) ==
    /\ ~mxPre.called
    /\ Len(mxSounds) < MaxVoices
    /\ mxSounds' = AddSound(mxSounds, mxMem.map[handle])
    /\ UNCHANGED <<notMixer, mxMem, mxOut, mxPre, mxSplit>>

\* mix(channels, out_data) on the zeroed buffer of a callback
MfMix(channels, frames) ==
    /\ ~mxPre.called
    /\ LET out_data == Zeros(frames * channels)
           mixed == MixF32(channels, out_data, mxMem.buf, mxSounds)
       IN  /\ mxPre' = [called |-> TRUE, channels |-> channels, out_data |-> out_data,
                        sounds |-> mxSounds, exact |-> mixed.exact]
           /\ mxSounds' = mixed.sounds
           /\ mxOut' = mixed.out_data
    /\ UNCHANGED <<notMixer, mxMem, mxSplit>>

\* The caller has read the buffer that mix filled and lets go of it.
MfDone ==
    /\ mxPre.called
    /\ mxPre' = [called |-> FALSE]
    /\ mxOut' = <<>>
    /\ UNCHANGED <<notMixer, mxMem, mxSounds, mxSplit>>

MixF32Next ==
    \/ \E handle \in IdMapKeys(F32Sources) : MfAddSound(handle)
    \/ \E channels \in 1..MaxChannels : \E frames \in 0..OutFrames : MfMix(channels, frames)
    \/ MfDone

MixF32AloneInit ==
    /\ PlayerInit /\ IdMapIdle /\ MixF32Init /\ ChannelInit /\ AtlasIdle /\ EndToEndInit
    /\ CallbackIdle
    /\ backend = "cpal"

SpecMixF32 == MixF32AloneInit /\ [][MixF32Next]_vars

\* ------------------------------------------------------------ claims, f32 mixer
\* The voice list the last mix call found, in another order.
Reordered(order) == [i \in DOMAIN mxPre.sounds |-> mxPre.sounds[order[i]]]

\* What mix gives for the voices the last call found, taken in another order.
MixReordered(order) ==
    MixF32(mxPre.channels, mxPre.out_data, mxMem.buf, Reordered(order))

\* C32, as stated: the voices that survive a mix call and the buffer it
\* leaves are the same for every order of the voice list.
C32_OrderIndependent ==
    mxPre.called =>
        \A order \in Orders(DOMAIN mxPre.sounds) :
            LET other == MixReordered(order)
            IN  /\ SameVoices(other.sounds, mxSounds)
                /\ other.out_data = mxOut

\* C32, amended: the voices that survive are the same for every order of the
\* voice list; whenever no addition of the pass is rounded, every place of the
\* buffer holds the sum of the samples all the voices found at entry have for
\* its frame, each counted once, brought into [-1.0, 1.0]; and the buffer is
\* the same for every order in which no addition is rounded.
C32_OrderUpToRounding ==
    mxPre.called =>
        /\ mxPre.exact =>
               \A k \in DOMAIN mxOut :
                   mxOut[k] = Bounded(mxPre.out_data[k] + MixedIn(FrameOf(k, mxPre.channels)),
                                      -F32One, F32One)
        /\ \A order \in Orders(DOMAIN mxPre.sounds) :
               LET other == MixReordered(order)
               IN  /\ SameVoices(other.sounds, mxSounds)
                   /\ (mxPre.exact /\ other.exact) => other.out_data = mxOut

\* A mix call found three voices of which the first ended in the pass and
\* was swap-removed, and no addition was rounded in the order they were in
\* while one is rounded in another order.
C32_Witness ==
    /\ mxPre.called
    /\ Len(mxPre.sounds) = 3
    /\ Len(mxSounds) \in {1, 2}
    /\ mxPre.sounds[1].cursor + Len(mxOut) \div mxPre.channels >=
           mxPre.sounds[1].clip.frames_count
    /\ Len(mxOut) > 0
    /\ mxPre.exact
    /\ \E order \in Orders(DOMAIN mxPre.sounds) : ~MixReordered(order).exact

\* ================================================================== what mix reads and writes
\* out_frames.min(sound.clip.frames_count - sound.cursor).  The subtraction
\* is on usize: with the cursor past frames_count it wraps to a value no
\* out_frames reaches (and panics in a build with overflow checks).
MixFramesUnbounded(out_frames, sound) == out_frames

MixFrames(out_frames, sound) ==
    IF sound.cursor <= sound.clip.frames_count
    THEN Min(out_frames, sound.clip.frames_count - sound.cursor)
    ELSE out_frames

\* The places of the atlas buffer the pass over one voice reads:
\* *src_ptr.add(j) for src_ptr = data_ptr.add(cursor) and j in 0..mix_frames.
ReadPlaces(sound, mix_frames) ==
    {sound.clip.data_ptr.off + sound.cursor + j : j \in 0..(mix_frames - 1)}

\* The places of out_data the pass over one voice writes, by the arm of the
\* match: *out_ptr.add(..) with j, with j * 2 and j * 2 + 1, and with
\* j * channels + c.
WrittenPlaces(channels, mix_frames) ==
    CASE channels = 1 -> {j : j \in 0..(mix_frames - 1)}
      [] channels = 2 -> UNION {{j * 2, j * 2 + 1} : j \in 0..(mix_frames - 1)}
      [] OTHER -> {j * channels + c : j \in 0..(mix_frames - 1), c \in 0..(channels - 1)}

\* The lengths of the buffers a caller may hand to mix, whole frames or not.
OutLengths == 0..((OutFrames + 1) * MaxChannels)

\* C33: every voice of the mixer has cursor <= frames_count, before and after
\* every mix call; and whatever the length of the buffer and the channel
\* count, the pass over the voice reads its clip only, from the cursor on and
\* inside the atlas buffer, and writes places of the output buffer only.
C33_MixStaysInBounds ==
    /\ mxPre.called =>
           \A k \in DOMAIN mxPre.sounds :
               mxPre.sounds[k].cursor <= mxPre.sounds[k].clip.frames_count
    /\ \A i \in DOMAIN mxSounds :
           LET sound == mxSounds[i]
               first == sound.clip.data_ptr.off + sound.cursor
               end == sound.clip.data_ptr.off + sound.clip.frames_count
           IN  /\ sound.cursor <= sound.clip.frames_count
               /\ \A channels \in 1..MaxChannels : \A length \in OutLengths :
                      LET mix_frames == MixFrames(length \div channels, sound)
                      IN  /\ \A p \in ReadPlaces(sound, mix_frames) :
                                 p >= first /\ p < end /\ p < Len(mxMem.buf)
                          /\ \A p \in WrittenPlaces(channels, mix_frames) : p < length

\* A mix call ended one voice and left another in the middle of its clip.
C33_Witness ==
    /\ mxPre.called
    /\ Len(mxPre.out_data) > 0
    /\ Len(mxSounds) < Len(mxPre.sounds)
    /\ \E i \in DOMAIN mxSounds :
           /\ mxSounds[i].cursor > 0
           /\ mxSounds[i].cursor < mxSounds[i].clip.frames_count

\* ================================================================== further claims, Player
\* Some input of the batch is malformed or unsupported: decode does not
\* return Ok for it.
Malformed(datas) == \E i \in DOMAIN datas : datas[i] \notin ValidInputs

\* C34: an init_load_sound call on a batch with a malformed or unsupported
\* input returns None; the calling thread does not panic.
C34_MalformedInputReturnsNone ==
    [][\A datas \in Batches :
         (InitLoadSound(datas) /\ Malformed(datas)) =>
             /\ ret' = "None"
             /\ callerPc' = "returned"]_vars

\* ================================================================== Mixer with a clip of no frames
\* The Mixer on an atlas built from two sources, one of them of no frames (a
\* file whose track holds no packet decodes to one), at the device's rate or
\* at a lower one.
EmptyClipSourceMaps ==
    LET empty == {RawSource(0, rate) : rate \in {8000, DefaultRate}}
        full == RawSource(MaxSourceFrames, DefaultRate)
    IN  {IdMapInsert(IdMapInsert(IdMapNew, a).map, full).map : a \in empty}
          \cup {IdMapInsert(IdMapInsert(IdMapNew, full).map, a).map : a \in empty}

EmptyClipInit ==
    /\ atSources \in EmptyClipSourceMaps
    /\ atDeviceRate = DefaultRate
    /\ atAtlas = NoAtlas
    /\ atBuiltAt = <<>>
    /\ mxMem \in {BuildFromSources(atSources, order, atDeviceRate, 1) :
                    order \in Orders(IdMapKeys(atSources))}
    /\ mxSounds = MixerNew
    /\ mxOut = <<>>
    /\ mxPre = [called |-> FALSE]
    /\ mxSplit = [called |-> FALSE]

EmptyClipAloneInit ==
    /\ PlayerInit /\ IdMapIdle /\ EmptyClipInit /\ ChannelInit /\ EndToEndInit /\ CallbackIdle
    /\ backend = "cpal"

SpecEmptyClip == EmptyClipAloneInit /\ [][MixerNext]_vars

\* ------------------------------------------------------------ claims, clip of no frames
\* The voice plays a clip of no frames.
OfEmptyClip(sound) == sound.clip.frames_count = 0

\* C35: a source of no frames gets a clip of no frames in the atlas; a voice
\* of such a clip never has its cursor moved, is gone after the first mix call
\* that finds it in the list, and that call leaves the buffer and the other
\* voices as it would have without the voice.
C35_EmptyClipVoice ==
    /\ \A handle \in IdMapKeys(atSources) :
         atSources.data[handle].frames_count = 0 =>
             /\ handle \in DOMAIN mxMem.map
             /\ mxMem.map[handle].frames_count = 0
    /\ \A i \in DOMAIN mxSounds : OfEmptyClip(mxSounds[i]) => mxSounds[i].cursor = 0
    /\ mxPre.called =>
         LET rest == SelectSeq(mxPre.sounds, LAMBDA sound : ~OfEmptyClip(sound))
             without == Mix(mxPre.channels, mxPre.out_data, mxMem.buf, rest)
         IN  /\ \A i \in DOMAIN mxSounds : ~OfEmptyClip(mxSounds[i])
             /\ \A i \in DOMAIN mxPre.sounds :
                  OfEmptyClip(mxPre.sounds[i]) => mxPre.sounds[i].cursor = 0
             /\ SameVoices(mxSounds, without.sounds)
             /\ mxOut = IF mxPre.sounds = <<>> THEN mxPre.out_data
                        ELSE [k \in DOMAIN without.out_data |-> Clamp(without.out_data[k])]

\* mix has returned from a buffer of one frame or more and a list whose first
\* voice had a clip of no frames, made from a source at another rate than the
\* device's, and whose other voices had clips of frames that were heard.
C35_Witness ==
    /\ mxPre.called
    /\ Len(mxPre.sounds) >= 2
    /\ OfEmptyClip(mxPre.sounds[1])
    /\ \E i \in DOMAIN mxPre.sounds : ~OfEmptyClip(mxPre.sounds[i])
    /\ \E handle \in IdMapKeys(atSources) :
         /\ atSources.data[handle].frames_count = 0
         /\ atSources.data[handle].sample_rate # atDeviceRate
    /\ Len(mxPre.out_data) >= mxPre.channels
    /\ \E k \in DOMAIN mxOut : mxOut[k] # mxPre.out_data[k]

\* ================================================================== further claims, atlas
\* floor(i * rs / rt), in exact arithmetic.
ExactIndex(i, rs, rt) == (i * rs) \div rt

\* C36: every destination frame i of a resampled clip interpolates between
\* sample(k) and sample(k + 1) for k = floor(i * Rs / Rt), the exact value,
\* where sample(j) is the source's sample for j < Ns and 0 from Ns on.
C36_ResampleReadsInRange ==
    AtBuilt =>
        \A handle \in IdMapKeys(atSources) :
            LET source == atSources.data[handle]
                samples == ClipSamples(atAtlas, handle)
            IN  source.sample_rate # atDeviceRate =>
                    \A i \in 0..(Len(samples) - 1) :
                        LET k == ExactIndex(i, source.sample_rate, atDeviceRate)
                        IN  /\ samples[i + 1].curr = GetRawFrame(source, k)
                            /\ samples[i + 1].next = GetRawFrame(source, k + 1)

\* ================================================================== further claims, the loss flag
\* C37: a loss that the open stream has reported stays in the flag for as long
\* as that stream is open, whatever maintain_stream and build_stream do
\* meanwhile; the maintain_stream call that begins with it set reads it set;
\* and a maintain_stream call that read it set has closed the stream when it
\* comes to its reset and to its retry.
C37_LossIsNotLost ==
    /\ [][(stream # 0 /\ lostBy = stream /\ stream' = stream) =>
              (device_lost' /\ lostBy' = stream)]_vars
    /\ [][(stream # 0 /\ lostBy = stream /\ callerPc = "idle" /\ op' = "maintain") =>
              msLost']_vars
    /\ []((op = "maintain" /\ msLost /\ callerPc \in {"ms_reset", "ms_retry"}) => stream = 0)

\* The stream reported a loss after a maintain_stream call had read the flag
\* clear and before that call returned: the flag is set, the stream is open.
C37_Witness ==
    /\ stream = 1
    /\ lostBy = 1
    /\ device_lost
    /\ op = "maintain"
    /\ callerPc = "ms_retry"
    /\ ~msLost

\* ================================================================== further claims, layout of the atlas
\* The places of the atlas buffer the clip of the handle covers, counted from
\* 0: [offset, offset + frames).
ClipPlaces(a, handle) ==
    LET clip == a.map[handle]
    IN  {clip.data_ptr.off + j : j \in 0..(clip.frames_count - 1)}

\* C38: the atlas map has an entry for every source handle and for nothing
\* else, the clips lie inside the atlas buffer, no two of them share a place,
\* and every place outside all clips holds 0.0.
C38_ClipsDisjoint ==
    AtBuilt =>
        /\ DOMAIN atAtlas.map = IdMapKeys(atSources)
        /\ \A handle \in DOMAIN atAtlas.map :
             /\ atAtlas.map[handle].data_ptr.base = atAtlas.base
             /\ ClipPlaces(atAtlas, handle) \subseteq 0..(Len(atAtlas.buf) - 1)
        /\ \A h, g \in DOMAIN atAtlas.map :
             h # g => ClipPlaces(atAtlas, h) \cap ClipPlaces(atAtlas, g) = {}
        /\ LET covered == UNION {ClipPlaces(atAtlas, handle) : handle \in DOMAIN atAtlas.map}
           IN  \A p \in (0..(Len(atAtlas.buf) - 1)) \ covered : atAtlas.buf[p + 1] = 0

\* Two sources of one frame or more were built into an atlas, one of them
\* resampled, with padding between the two clips.
C38_Witness ==
    /\ AtBuilt
    /\ \E h, g \in DOMAIN atAtlas.map :
         /\ h # g
         /\ atAtlas.map[h].frames_count >= 1
         /\ atAtlas.map[g].frames_count >= 1
         /\ atSources.data[h].sample_rate # atDeviceRate
         /\ atAtlas.map[h].data_ptr.off = 0
         /\ atAtlas.map[g].data_ptr.off > atAtlas.map[h].frames_count

\* ================================================================== further claims, maintain_stream
\* What the Player holds: the stream, the ring and its two ends, the cached
\* sources, and the installed mixer and atlas.
PlayerHeld == <<stream, ringVars, cached_sources, globals>>

\* C39: maintain_stream called with a stream open and the flag clear reads the
\* flag and goes to its retry, which returns while the stream is open; neither
\* step changes the stream, the atlas, the voices and their cursors, the
\* pending triggers, the cached sources or the flag.
C39_MaintainIsNoOp ==
    /\ [][(callerPc = "idle" /\ op' = "maintain" /\ stream # 0 /\ ~device_lost) =>
              /\ callerPc' = "ms_retry"
              /\ ~msLost'
              /\ UNCHANGED <<PlayerHeld, flagVars>>]_vars
    /\ [][(op = "maintain" /\ callerPc = "ms_retry" /\ callerPc' # "ms_retry"
              /\ ~msLost /\ stream # 0) =>
              /\ callerPc' = "returned"
              /\ UNCHANGED <<PlayerHeld, flagVars>>]_vars

\* Such a call has returned: the stream is open, a voice is part way through
\* its clip, and the flag is clear.
C39_Witness ==
    /\ op = "maintain"
    /\ callerPc = "returned"
    /\ ~msLost
    /\ ~device_lost
    /\ stream # 0
    /\ voices # <<>>
    /\ \E i \in DOMAIN voices : voices[i].cursor > 0
    /\ mixerSome /\ atlasSome

====
